---- MODULE Spec2Model ----
(***************************************************************************)
(* Model of the cli_messanger terminal chat client: the long-polling       *)
(* NetworkClient (poll loop, fire-and-forget sends, self-echo dedup) and   *)
(* the ChatView render model (committedText, inFlight slots, generation).  *)
(*                                                                         *)
(* Strings are sequences of tokens.  A token is one character of           *)
(* externally supplied text ("[", "]", " ", "a", ...) or an atom standing  *)
(* for a fixed literal fragment of a format string ("<ts>", "[-]\n", ...). *)
(* String concatenation is \o, the empty string is <<>>.                   *)
(***************************************************************************)
EXTENDS Integers, Sequences, FiniteSets, TLC

\* ------------------------------------------------------------------ bounds
MaxBatch == 3        \* longest raw poll array drawn for the parser
MaxPolls == 2        \* poll requests issued in the send/poll specifications
MaxLoopPolls == 7    \* poll requests issued in the poll-loop specification
MaxPosts == 2        \* messages in all: OnSendMessage calls and posts of other clients
MaxStopCalls == 2    \* concurrent callers of NetworkClient.Stop
MaxIncoming == 1     \* AddIncomingMessage calls in the render specification
MaxEdits == 1        \* ClearMessages, SetMessages and AddMessage calls in the render specification
MaxSlots == 2        \* AddIncomingMessage calls in the specification of concurrent animations
MaxClients == 3      \* network clients created by one AppController
MaxArrivals == 3      \* messages other clients post in the ordering specification

\* ------------------------------------------------------- string helpers
EmptyStr == <<>>

RECURSIVE ConcatAll(_)
ConcatAll(ss) == IF ss = <<>> THEN <<>> ELSE Head(ss) \o ConcatAll(Tail(ss))

Count(s, tok) == Cardinality({i \in 1..Len(s) : s[i] = tok})

IsPrefix(s, t) == Len(s) <= Len(t) /\ SubSeq(t, 1, Len(s)) = s

\* strings.ReplaceAll(s, "[", "[[]")
RECURSIVE sanitizeContent(_)
sanitizeContent(s) ==
  IF s = <<>> THEN <<>>
  ELSE (IF Head(s) = "[" THEN <<"[", "[", "]">> ELSE <<Head(s)>>)
         \o sanitizeContent(Tail(s))

WhiteTag == <<"[", "white", "]">>

safeColorTag(tag) ==
  IF Len(tag) < 3 THEN WhiteTag
  ELSE IF tag[1] # "[" \/ tag[Len(tag)] # "]" THEN WhiteTag
  ELSE IF \E i \in 2..(Len(tag) - 1) : tag[i] \in {"[", "]"} THEN WhiteTag
  ELSE tag

\* strings.Fields: the maximal runs of non-space tokens, in order
RECURSIVE FieldsAcc(_, _, _)
FieldsAcc(s, cur, acc) ==
  IF s = <<>> THEN (IF cur = <<>> THEN acc ELSE Append(acc, cur))
  ELSE IF Head(s) = " "
       THEN FieldsAcc(Tail(s), <<>>, IF cur = <<>> THEN acc ELSE Append(acc, cur))
       ELSE FieldsAcc(Tail(s), Append(cur, Head(s)), acc)

Fields(s) == FieldsAcc(s, <<>>, <<>>)

\* the string `built` after the first n words have been joined by one space
RECURSIVE Built(_, _)
Built(words, n) ==
  IF n = 0 THEN <<>>
  ELSE IF n = 1 THEN words[1]
  ELSE Built(words, n - 1) \o <<" ">> \o words[n]

\* ----------------------------------------------------------- wire types
\* A JSON value: a string, or something that does not unmarshal to a string.
JStr(s) == <<"str", s>>
JNum == <<"num", <<>>>>

\* json.Unmarshal(v, &field) into a string field that starts out "": the
\* field is set only when v is a JSON string.
UnmarshalString(v) == IF v[1] = "str" THEN v[2] ELSE EmptyStr

knownPollKeys == {"color", "id", "timestamp"}

\* The user name taken from a JSON key.
KeyString(k) == IF k = "" THEN EmptyStr ELSE <<k>>

\* The messages one raw entry can be decoded to.  The author is the first
\* non-reserved key the map iteration yields, so an entry with several such
\* keys decodes to one message per possible iteration order.
DecodeEntry(raw) ==
  LET color == IF "color" \in DOMAIN raw THEN UnmarshalString(raw["color"]) ELSE EmptyStr
      id    == IF "id" \in DOMAIN raw THEN UnmarshalString(raw["id"]) ELSE EmptyStr
      other == DOMAIN raw \ knownPollKeys
  IN IF other = {}
     THEN {[Username |-> EmptyStr, Content |-> EmptyStr, Color |-> color, ID |-> id]}
     ELSE {[Username |-> KeyString(k), Content |-> UnmarshalString(raw[k]),
            Color |-> color, ID |-> id] : k \in other}

\* A variant of the validity test that forgets the id.
MalformedNoIdCheck(msg) == msg.Username = EmptyStr \/ msg.Content = EmptyStr

\* if msg.Username == "" || msg.Content == "" || msg.ID == "" { continue }
Malformed(msg) == msg.Username = EmptyStr \/ msg.Content = EmptyStr \/ msg.ID = EmptyStr

\* parsePollMessages on an array that unmarshalled: every list of messages
\* the loop over rawList can return.
RECURSIVE parsePollMessages(_)
parsePollMessages(rawList) ==
  IF rawList = <<>> THEN {<<>>}
  ELSE LET rest == parsePollMessages(Tail(rawList))
       IN UNION {IF Malformed(m) THEN rest ELSE {<<m>> \o r : r \in rest}
                 : m \in DecodeEntry(Head(rawList))}

\* The wire contract, entry by entry: the fields an entry carries.
Others(raw) == DOMAIN raw \ knownPollKeys
StrField(raw, k) == IF k \in DOMAIN raw /\ raw[k][1] = "str" THEN raw[k][2] ELSE EmptyStr
\* exactly one non-reserved key, with a body, and an id
EntryOk(raw) ==
  /\ Cardinality(Others(raw)) = 1
  /\ \A k \in Others(raw) : k # "" /\ StrField(raw, k) # EmptyStr
  /\ StrField(raw, "id") # EmptyStr
\* the id, the author or the body is missing
EntryMissing(raw) ==
  \/ StrField(raw, "id") = EmptyStr
  \/ \A k \in Others(raw) : k = "" \/ StrField(raw, k) = EmptyStr
RawPayload(raw) ==
  LET k == CHOOSE k \in Others(raw) : TRUE
  IN [ID |-> StrField(raw, "id"), Username |-> <<k>>, Content |-> StrField(raw, k),
      Color |-> StrField(raw, "color")]

\* Unary relay ids: "i", "ii", "iii", ...
IdOf(n) == [i \in 1..n |-> "i"]

\* Raw entries the parser is exercised on.
GoodEntry(user, body, color, n) ==
  (user :> JStr(body)) @@ [id |-> JStr(IdOf(n)), color |-> JStr(color)]

SampleEntries ==
  { GoodEntry("alice", <<"h", "i">>, <<"[", "g", "]">>, 1),
    GoodEntry("bob", <<"y", "o">>, <<"[", "g", "]">>, 2),
    [alice |-> JStr(<<"h", "i">>), color |-> JStr(<<"[", "g", "]">>)],
    [id |-> JStr(IdOf(3)), color |-> JStr(<<"[", "g", "]">>)],
    [alice |-> JStr(EmptyStr), id |-> JStr(IdOf(3))],
    [alice |-> JNum, id |-> JStr(IdOf(3))],
    [alice |-> JStr(<<"h", "i">>), id |-> JNum] }

RECURSIVE SeqsUpTo(_, _)
SeqsUpTo(S, n) ==
  IF n = 0 THEN {<<>>}
  ELSE LET shorter == SeqsUpTo(S, n - 1)
       IN shorter \cup {Append(s, x) : s \in {t \in shorter : Len(t) = n - 1}, x \in S}


\* ---------------------------------------------------------------- state
VARIABLES
  nc,     \* NetworkClient: stopped, stopCh, lastID, sentIDs
  loop,   \* pollLoop: position and locals
  sends,  \* one record per sendAsync goroutine
  stops,  \* position of every caller of NetworkClient.Stop
  relay,  \* the relay: the messages it holds and the next id it assigns
  view,   \* ChatView: stopped, animMode and the message render model
  queue,  \* the update queue of the event loop (QueueUpdateDraw), FIFO
  anims,  \* one record per word-animation goroutine
  obs,    \* history of the run: callback invocations, counters
  parse,  \* the parser harness: input array, result
  boot,   \* the loading screen of main: position, fields, answer of GET /health
  app     \* AppController: netClient and the stats poller goroutines it started

vars == <<nc, loop, sends, stops, relay, view, queue, anims, obs, parse, boot, app>>

\* ------------------------------------------------------ program constants
initialBackoff == 1
maxBackoff == 30

minDur(a, b) == IF a < b THEN a ELSE b

\* ------------------------------------------------------ message formatting
GrayTs == "[gray][<ts>][-] "
OpenUser == "[[]"
CloseUser == "][-] "
EndLine == "[-]<nl>"
CursorTok == "[dim]|[-]"
SystemTok == "[yellow]> "

LocalUser == <<"me">>
LocalColor == <<"[", "c", "]">>

\* models.GetUsernameColor and models.ParseColorToTag (package models)
GetUsernameColor(username) == <<"[", "u", "]">>
ParseColorToTag(color) == <<"[">> \o color \o <<"]">>

formatLine(msg) ==
  IF msg.IsSystem
  THEN <<SystemTok>> \o msg.Content \o <<EndLine>>
  ELSE LET color == safeColorTag(msg.Color)
       IN <<GrayTs>> \o color \o <<OpenUser>> \o sanitizeContent(msg.Username)
            \o <<CloseUser>> \o color \o sanitizeContent(msg.Content) \o <<EndLine>>

incomingPrefix(colorTag, username) ==
  <<GrayTs>> \o colorTag \o <<OpenUser>> \o sanitizeContent(username)
    \o <<CloseUser>> \o colorTag

\* The texts handed to onStatusChange.
CannotReachMsg == <<"Cannot reach server">>
ConnLostMsg(backoff) == <<"Connection lost, reconnecting in", ToString(backoff) \o "s">>
ConnectedMsg == <<"Connected to relay">>
SendFailedMsg == <<"Message send failed">>
RejectedMsg == <<"Server rejected access key">>

\* ------------------------------------------------------------ update tasks
\* A task of the event loop; anim is the index of the animation an init task
\* belongs to (0: none).
Task(kind, prefix, text, animID, gen, isLast, anim, connected) ==
  [kind |-> kind, prefix |-> prefix, text |-> text, animID |-> animID, gen |-> gen,
   isLast |-> isLast, anim |-> anim, connected |-> connected]

StaticTask(prefix, content) == Task("static", prefix, content, -1, -1, FALSE, 0, FALSE)
StatusTask(connected, msg) == Task("status", <<>>, msg, -1, -1, FALSE, 0, connected)
InitTask(prefix, a) == Task("init", prefix, <<>>, -1, -1, FALSE, a, FALSE)
BulkTask(text) == Task("bulk", <<>>, text, -1, -1, FALSE, 0, FALSE)
TickTask(prefix, snapshot, animID, gen, isLast) ==
  Task("tick", prefix, snapshot, animID, gen, isLast, 0, FALSE)

\* renderMessages: committedText followed by the in-flight lines by animID
RECURSIVE InFlightText(_, _, _)
InFlightText(inFlight, i, n) ==
  IF i >= n THEN <<>>
  ELSE (IF i \in DOMAIN inFlight THEN inFlight[i] ELSE <<>>) \o InFlightText(inFlight, i + 1, n)

\* A redraw that shows the committed text only.
renderCommittedOnly(v) == [v EXCEPT !.shown = v.committedText]

\* text := c.committedText; for i := 0; i < c.nextAnimID; i++ { text += c.inFlight[i] }
renderMessages(v) ==
  [v EXCEPT !.shown = v.committedText \o InFlightText(v.inFlight, 0, v.nextAnimID)]

\* ------------------------------------------------------------- callbacks
\* A callback invoked while nc.stopped is already 1.
Late == nc.stopped = 1

\* An AddIncomingMessage that draws a body without words too.
noWordsNever(words) == FALSE

\* if len(words) == 0 { return }
noWords(words) == Len(words) = 0

\* ChatView.AddIncomingMessage, as called by the onMessage callback.
AddIncomingMessage(username, content, color) ==
  LET c1 == IF color = EmptyStr THEN GetUsernameColor(username) ELSE color
      c2 == IF c1[1] # "[" THEN ParseColorToTag(c1) ELSE c1
      colorTag == safeColorTag(c2)
      words == Fields(content)
      prefix == incomingPrefix(colorTag, username)
  IN IF view.stopped = 1 \/ noWords(words)
     THEN UNCHANGED <<queue, anims>>
     ELSE IF view.animMode = 0
          THEN /\ queue' = Append(queue, StaticTask(prefix, content))
               /\ UNCHANGED anims
          ELSE /\ queue' = Append(queue, InitTask(prefix, Len(anims) + 1))
               /\ anims' = Append(anims, [pc |-> "waitSlot", words |-> words,
                                          prefix |-> prefix, sent |-> FALSE,
                                          id |-> -1, gen |-> -1, i |-> 0])

\* notifyStatus -> onStatusChange: queues the status update of AppController
notifyStatus(q, connected, msg) == Append(q, StatusTask(connected, msg))


\* ------------------------------------------------------------------ relay
\* The relay keeps the raw entries it accepted, in order, and answers a poll
\* with the entries that follow the one whose id is last_id.
EntryId(raw) == IF "id" \in DOMAIN raw THEN UnmarshalString(raw["id"]) ELSE EmptyStr

RelayPending(lastID) ==
  LET hits == {i \in 1..Len(relay.log) : EntryId(relay.log[i]) = lastID}
      pos == IF lastID = EmptyStr \/ hits = {} THEN 0
             ELSE CHOOSE i \in hits : \A j \in hits : j <= i
  IN SubSeq(relay.log, pos + 1, Len(relay.log))

RelayAppend(raw) == [relay EXCEPT !.log = Append(@, raw), !.nextId = @ + 1]

ForeignEntries(n) ==
  { GoodEntry("alice", <<"h", "i">>, <<"[", "g", "]">>, n),
    [alice |-> JStr(<<"h", "i">>), color |-> JStr(<<"[", "g", "]">>)] }

\* Another client posts a message to the relay.
ForeignPost ==
  /\ Len(sends) + obs.nForeign < MaxPosts
  /\ \E raw \in ForeignEntries(relay.nextId) : relay' = RelayAppend(raw)
  /\ obs' = [obs EXCEPT !.nForeign = @ + 1]
  /\ UNCHANGED <<nc, loop, sends, stops, view, queue, anims, parse, boot, app>>

\* ------------------------------------------------------------ Start, Stop
NetStart ==
  /\ loop.pc = "idle"
  /\ loop' = [loop EXCEPT !.pc = "top"]
  /\ UNCHANGED <<nc, sends, stops, relay, view, queue, anims, obs, parse, boot, app>>

\* A Stop that closes stopCh whatever the flag was.
CasAlwaysWins(stopped) == TRUE

\* atomic.CompareAndSwapInt32(&nc.stopped, 0, 1) succeeds
CasWins(stopped) == stopped = 0

StopCas(c) ==
  /\ stops[c] = "idle"
  /\ stops' = [stops EXCEPT ![c] = IF CasWins(nc.stopped) THEN "closing" ELSE "done"]
  /\ nc' = [nc EXCEPT !.stopped = 1]
  /\ UNCHANGED <<loop, sends, relay, view, queue, anims, obs, parse, boot, app>>

StopClose(c) ==
  /\ stops[c] = "closing"
  /\ stops' = [stops EXCEPT ![c] = "done"]
  /\ nc' = [nc EXCEPT !.stopCh = "closed"]
  /\ obs' = [obs EXCEPT !.nClose = @ + 1]
  /\ UNCHANGED <<loop, sends, relay, view, queue, anims, parse, boot, app>>

\* ------------------------------------------------------------------- send
\* The body of the k-th local message.
SendBody(k) == <<ToString(k)>>

\* An AddMessage that draws nothing.
AddMessageDropped(v, msg) == v

\* ChatView.AddMessage, on the event loop (own messages, system messages)
AddMessage(v, msg) == renderMessages([v EXCEPT !.committedText = @ \o formatLine(msg)])

\* A SendMessage that starts sendAsync whatever the flag.
sendStartsAlways(stopped) == TRUE

\* SendMessage: if atomic.LoadInt32(&nc.stopped) == 1 { return }; go nc.sendAsync(...)
sendStarts(stopped) == stopped # 1

\* AppController.OnSendMessage, on the event loop: the local line is
\* committed, then SendMessage starts sendAsync unless the client is stopped.
OnSendMessage ==
  /\ Len(sends) + obs.nForeign < MaxPosts
  /\ LET content == SendBody(Len(sends) + 1)
         msg == [IsSystem |-> FALSE, Username |-> LocalUser, Content |-> content,
                 Color |-> LocalColor]
     IN /\ view' = AddMessage(view, msg)
        /\ sends' = Append(sends, [pc |-> IF sendStarts(nc.stopped) THEN "inflight" ELSE "notsent",
                                   content |-> content, status |-> 0, id |-> EmptyStr,
                                   outcome |-> "none"])
  /\ UNCHANGED <<nc, loop, stops, relay, queue, anims, obs, parse, boot, app>>

\* The relay accepts the POST and assigns the id; the response is on its way.
RelayAcceptSend(s) ==
  /\ s \in DOMAIN sends /\ sends[s].pc = "inflight"
  /\ relay' = RelayAppend(GoodEntry("me", sends[s].content, LocalColor, relay.nextId))
  /\ \E withId \in BOOLEAN :
       sends' = [sends EXCEPT ![s].pc = "responded", ![s].status = 200,
                              ![s].id = IF withId THEN IdOf(relay.nextId) ELSE EmptyStr]
  /\ UNCHANGED <<nc, loop, stops, view, queue, anims, obs, parse, boot, app>>

\* The relay answers the POST with 401 or another status.
RelayRejectSend(s) ==
  /\ s \in DOMAIN sends /\ sends[s].pc = "inflight"
  /\ \E st \in {401, 500} : sends' = [sends EXCEPT ![s].pc = "responded", ![s].status = st]
  /\ UNCHANGED <<nc, loop, stops, relay, view, queue, anims, obs, parse, boot, app>>

\* httpClient.Post returns an error (the request or the response was lost).
SendTransportError(s) ==
  /\ s \in DOMAIN sends /\ sends[s].pc \in {"inflight", "responded"}
  /\ sends' = [sends EXCEPT ![s].pc = "done", ![s].outcome = "transport"]
  /\ queue' = notifyStatus(queue, FALSE, SendFailedMsg)
  /\ obs' = [obs EXCEPT !.late = @ \/ Late]
  /\ UNCHANGED <<nc, loop, stops, relay, view, anims, parse, boot, app>>

\* nc.sentIDs[sr.ID] = struct{}{} when the decoded id is not empty
sentAfterAck(sent, id) == IF id # EmptyStr THEN sent \cup {id} ELSE sent

\* sendAsync after the response arrived: the switch on resp.StatusCode.
SendComplete(s) ==
  /\ s \in DOMAIN sends /\ sends[s].pc = "responded"
  /\ sends' = [sends EXCEPT ![s].pc = "done",
                            ![s].outcome = IF sends[s].status = 401 THEN "401"
                                           ELSE IF sends[s].status = 200 THEN "ok"
                                           ELSE "other"]
  /\ IF sends[s].status = 401
     THEN /\ queue' = notifyStatus(queue, FALSE, RejectedMsg)
          /\ obs' = [obs EXCEPT !.late = @ \/ Late]
          /\ UNCHANGED nc
     ELSE IF sends[s].status = 200
     THEN /\ nc' = [nc EXCEPT !.sentIDs = sentAfterAck(@, sends[s].id)]
          /\ UNCHANGED <<queue, obs>>
     ELSE UNCHANGED <<nc, queue, obs>>
  /\ UNCHANGED <<loop, stops, relay, view, anims, parse, boot, app>>


\* -------------------------------------------------------------- poll loop
Last(q) == q[Len(q)]

\* A request that never carries a cursor.
requestCursorEmpty(lastID) == EmptyStr

\* poll(): lastID := nc.lastID; if lastID != "" { params.Set("last_id", lastID) }
requestCursor(lastID) == lastID

\* top of the for loop: the stopped check, then poll() issues the request
\* A loop that starts a poll while the previous request is still open.
canPollAnytime(pc) == pc \in {"top", "inflight"}

\* poll() is called from the top of an iteration and the loop blocks in it
canPoll(pc) == pc = "top"

\* A loop that never sees the stopped flag.
loopStoppedNever(stopped) == FALSE

\* if atomic.LoadInt32(&nc.stopped) == 1 { return }
loopStopped(stopped) == stopped = 1

PollIssue(maxPolls) ==
  /\ canPoll(loop.pc)
  /\ ~loopStopped(nc.stopped)
  /\ obs.nPolls < maxPolls
  /\ loop' = [loop EXCEPT !.pc = "inflight", !.reqLastID = requestCursor(nc.lastID)]
  /\ obs' = [obs EXCEPT !.nPolls = @ + 1, !.openPolls = @ + 1]
  /\ UNCHANGED <<nc, sends, stops, relay, view, queue, anims, parse, boot, app>>

LoopExit ==
  /\ loop.pc = "top"
  /\ loopStopped(nc.stopped)
  /\ loop' = [loop EXCEPT !.pc = "exit"]
  /\ UNCHANGED <<nc, sends, stops, relay, view, queue, anims, obs, parse, boot, app>>

\* the error branch notifies when firstConnect or wasConnected
\* A loop that reports every failed cycle.
notifiesDownAlways(firstConnect, wasConnected) == TRUE

\* the error branch notifies when firstConnect, else when wasConnected
notifiesDown(firstConnect, wasConnected) == firstConnect \/ wasConnected

\* A loop that reports every successful cycle.
notifiesUpAlways(firstConnect, wasConnected) == TRUE

\* the success branch notifies when firstConnect or not wasConnected
notifiesUp(firstConnect, wasConnected) == firstConnect \/ ~wasConnected

PollErrors == {"transport", "401", "status", "readbody", "badjson"}

\* A loop that gives up when the relay rejects the access key.
afterPollErrorGivesUp(kind) == IF kind = "401" THEN "exit" ELSE "backoffWait"

\* every error of poll() leads to the same select on stopCh and time.After(backoff)
afterPollError(kind) == "backoffWait"

\* An error branch that leaves the connection flag as it was.
wasConnectedKept(wasConnected) == wasConnected

\* wasConnected = false
wasConnectedAfterError(wasConnected) == FALSE

\* poll() returns an error: the request failed, the relay answered 401 or an
\* unexpected status, or the body of a 200 could not be read or unmarshalled.
PollFail ==
  /\ loop.pc = "inflight"
  /\ \E kind \in PollErrors :
       LET down == notifiesDown(loop.firstConnect, loop.wasConnected)
           msg == IF loop.firstConnect THEN CannotReachMsg ELSE ConnLostMsg(loop.backoff)
       IN /\ queue' = IF down THEN notifyStatus(queue, FALSE, msg) ELSE queue
          /\ obs' = [obs EXCEPT !.late = @ \/ (down /\ Late),
                                !.consecFails = @ + 1,
                                !.discInRun = @ + (IF down THEN 1 ELSE 0),
                                !.connInRun = 0,
                                !.lastOutcome = kind,
                                !.openPolls = @ - 1]
          /\ loop' = [loop EXCEPT !.wasConnected = wasConnectedAfterError(@),
                                  !.pc = afterPollError(kind)]
  /\ UNCHANGED <<nc, sends, stops, relay, view, anims, parse, boot, app>>

\* The common part of a successful cycle.
PollSucceeded(kind, nextPc, msgs, rawBatch) ==
  LET up == notifiesUp(loop.firstConnect, loop.wasConnected)
  IN /\ queue' = IF up THEN notifyStatus(queue, TRUE, ConnectedMsg) ELSE queue
     /\ obs' = [obs EXCEPT !.late = @ \/ (up /\ Late),
                           !.consecFails = 0,
                           !.discInRun = 0,
                           !.connInRun = @ + (IF up THEN 1 ELSE 0),
                           !.lastOutcome = kind,
                           !.rawBatch = rawBatch,
                           !.batchStart = Len(obs.delivered),
                           !.batchDedup = 0,
                           !.openPolls = @ - 1]
     /\ loop' = [loop EXCEPT !.backoff = initialBackoff, !.firstConnect = FALSE,
                             !.wasConnected = TRUE, !.msgs = msgs, !.pc = nextPc]

\* 204: poll() returns (nil, nil); the loop pauses before the next cycle.
Poll204 ==
  /\ loop.pc = "inflight"
  /\ RelayPending(loop.reqLastID) = <<>>
  /\ PollSucceeded("204", "pause", <<>>, <<>>)
  /\ UNCHANGED <<nc, sends, stops, relay, view, anims, parse, boot, app>>

\* A poll() that moves the cursor to the first entry of the batch.
cursorAfterFirst(lastID, msgs) == IF Len(msgs) > 0 THEN Head(msgs).ID ELSE lastID

\* A poll() that leaves the cursor alone.
cursorAfterStuck(lastID, msgs) == lastID

\* if len(msgs) > 0 { nc.lastID = msgs[len(msgs)-1].ID }
cursorAfter(lastID, msgs) == IF Len(msgs) > 0 THEN Last(msgs).ID ELSE lastID

\* 200: the body is parsed, the cursor advanced, the messages dispatched.
Poll200 ==
  /\ loop.pc = "inflight"
  /\ RelayPending(loop.reqLastID) # <<>>
  /\ \E msgs \in parsePollMessages(RelayPending(loop.reqLastID)) :
       /\ nc' = [nc EXCEPT !.lastID = cursorAfter(@, msgs)]
       /\ PollSucceeded("200", IF msgs = <<>> THEN "top" ELSE "dispatch", msgs,
                        RelayPending(loop.reqLastID))
  /\ UNCHANGED <<sends, stops, relay, view, anims, parse, boot, app>>

\* _, isMine := nc.sentIDs[msg.ID]
isMine(sent, id) == id \in sent

\* A dedup that keeps the id of a recognised echo.
sentAfterIncomingKept(sent, id) == sent

\* if isMine { delete(nc.sentIDs, msg.ID) }
sentAfterIncoming(sent, id) == IF isMine(sent, id) THEN sent \ {id} ELSE sent

Payload(m) == [ID |-> m.ID, Username |-> m.Username, Content |-> m.Content, Color |-> m.Color]

\* handleIncoming for the next message of the batch.
HandleIncoming ==
  /\ loop.pc = "dispatch"
  /\ LET m == Head(loop.msgs)
         mine == isMine(nc.sentIDs, m.ID)
     IN /\ nc' = [nc EXCEPT !.sentIDs = sentAfterIncoming(@, m.ID)]
        /\ IF mine
           THEN /\ obs' = [obs EXCEPT !.batchDedup = @ + 1]
                /\ UNCHANGED <<queue, anims>>
           ELSE /\ obs' = [obs EXCEPT !.delivered = Append(@, Payload(m)),
                                      !.late = @ \/ Late]
                /\ AddIncomingMessage(m.Username, m.Content, m.Color)
  /\ loop' = [loop EXCEPT !.msgs = Tail(@),
                          !.pc = IF Tail(loop.msgs) = <<>> THEN "top" ELSE "dispatch"]
  /\ UNCHANGED <<sends, stops, relay, view, parse, boot, app>>

\* A backoff that keeps doubling.
nextBackoffUncapped(backoff) == backoff * 2

\* backoff = minDur(backoff*2, maxBackoff)
nextBackoff(backoff) == minDur(backoff * 2, maxBackoff)

\* select: time.After(backoff) fires
BackoffElapsed ==
  /\ loop.pc = "backoffWait"
  /\ loop' = [loop EXCEPT !.backoff = nextBackoff(@), !.pc = "top"]
  /\ UNCHANGED <<nc, sends, stops, relay, view, queue, anims, obs, parse, boot, app>>

\* select: stopCh is closed
BackoffStopped ==
  /\ loop.pc = "backoffWait"
  /\ nc.stopCh = "closed"
  /\ loop' = [loop EXCEPT !.pc = "exit"]
  /\ UNCHANGED <<nc, sends, stops, relay, view, queue, anims, obs, parse, boot, app>>

PauseElapsed ==
  /\ loop.pc = "pause"
  /\ loop' = [loop EXCEPT !.pc = "top"]
  /\ UNCHANGED <<nc, sends, stops, relay, view, queue, anims, obs, parse, boot, app>>

PauseStopped ==
  /\ loop.pc = "pause"
  /\ nc.stopCh = "closed"
  /\ loop' = [loop EXCEPT !.pc = "exit"]
  /\ UNCHANGED <<nc, sends, stops, relay, view, queue, anims, obs, parse, boot, app>>

\* ----------------------------------------------------------- stats poller
\* AppController.netClient is 0 for nil and k for the k-th client created;
\* every startNetworkClient starts one statsPollerLoop goroutine.
NoClient == <<>>
ClientNo(k) == <<k>>

\* stopNetworkClient: Stop and ac.netClient = nil when a client is set
afterStopNetworkClient(a) ==
  IF a.netClient = NoClient THEN a
  ELSE [a EXCEPT !.netClient = NoClient, !.before = a.netClient]

\* startNetworkClient: stopNetworkClient, NewNetworkClient, Start,
\* go ac.statsPollerLoop()
afterStartNetworkClient(a) ==
  LET b == afterStopNetworkClient(a)
      k == b.created + 1
  IN [b EXCEPT !.netClient = ClientNo(k), !.before = b.netClient, !.created = k,
               !.pollers = Append(@, [client |-> ClientNo(k), pc |-> "first",
                                      fetches |-> 0])]

\* OnLogin: the first client
AppLogin ==
  /\ app.created = 0
  /\ app' = afterStartNetworkClient(app)
  /\ UNCHANGED <<nc, loop, sends, stops, relay, view, queue, anims, obs, parse, boot>>

\* OnCommand, /server <url>: stopNetworkClient then startNetworkClient
AppServerCommand ==
  /\ app.created >= 1 /\ app.created < MaxClients
  /\ app' = afterStartNetworkClient(afterStopNetworkClient(app))
  /\ UNCHANGED <<nc, loop, sends, stops, relay, view, queue, anims, obs, parse, boot>>

\* StopBot: stopNetworkClient
AppStopBot ==
  /\ app.netClient # NoClient
  /\ app' = afterStopNetworkClient(app)
  /\ UNCHANGED <<nc, loop, sends, stops, relay, view, queue, anims, obs, parse, boot>>

\* ac.netClient is written on the event loop and read by the pollers with
\* no synchronisation: a read returns the value last written or the one
\* before it.
ReadNetClient == {app.netClient, app.before}

\* fetchAndPushStats fetches unless ac.netClient is nil
fetchesAfter(n, netClient) == IF netClient = NoClient THEN n ELSE 1

\* statsPollerLoop: the fetch made before the first tick
StatsFirstFetch(p) ==
  /\ p \in DOMAIN app.pollers /\ app.pollers[p].pc = "first"
  /\ \E seen \in ReadNetClient :
       app' = [app EXCEPT !.pollers[p].pc = "wait",
                          !.pollers[p].fetches = fetchesAfter(@, seen)]
  /\ UNCHANGED <<nc, loop, sends, stops, relay, view, queue, anims, obs, parse, boot>>

\* case <-ticker.C: if ac.netClient == nil { return }
pollerReturns(netClient, own) == netClient = NoClient

\* statsPollerLoop: one tick of the ticker
StatsTick(p) ==
  /\ p \in DOMAIN app.pollers /\ app.pollers[p].pc = "wait"
  /\ \E seen \in ReadNetClient :
       app' = IF pollerReturns(seen, app.pollers[p].client)
              THEN [app EXCEPT !.pollers[p].pc = "exit"]
              ELSE [app EXCEPT !.pollers[p].fetches = fetchesAfter(@, seen)]
  /\ UNCHANGED <<nc, loop, sends, stops, relay, view, queue, anims, obs, parse, boot>>

\* ----------------------------------------------------------------- faults
\* A runtime panic inside a task.  A goroutine or closure that deferred a
\* recover ends there and then; a panic in a closure without one unwinds
\* into the event loop and out of Application.Run, and main exits.

\* pollLoop panics anywhere in its body: the deferred recover logs it
PollLoopFault ==
  /\ loop.pc \in {"top", "inflight", "dispatch", "backoffWait", "pause"}
  /\ loop' = [loop EXCEPT !.pc = "exit"]
  /\ obs' = [obs EXCEPT !.openPolls = IF loop.pc = "inflight" THEN @ - 1 ELSE @]
  /\ UNCHANGED <<nc, sends, stops, relay, view, queue, anims, parse, boot, app>>

\* sendAsync panics: the deferred recover logs it
SendFault(s) ==
  /\ s \in DOMAIN sends /\ sends[s].pc \in {"inflight", "responded"}
  /\ sends' = [sends EXCEPT ![s].pc = "done", ![s].outcome = "panic"]
  /\ UNCHANGED <<nc, loop, stops, relay, view, queue, anims, obs, parse, boot, app>>

\* the static draw panics, before or after the line was appended: the
\* recover deferred inside the closure logs it and the closure returns
RunStaticFault ==
  /\ queue # <<>> /\ Head(queue).kind = "static"
  /\ view.stopped = 0
  /\ LET t == Head(queue)
     IN \E appended \in BOOLEAN :
          view' = IF appended
                  THEN [view EXCEPT !.committedText =
                          @ \o t.prefix \o sanitizeContent(t.text) \o <<EndLine>>]
                  ELSE view
  /\ queue' = Tail(queue)
  /\ UNCHANGED <<nc, loop, sends, stops, relay, anims, obs, parse, boot, app>>

\* recover() deferred in the closure: the closures of the static draw, of
\* anim-init and of the word tick have one, the status update of
\* startNetworkClient and the bulk load of SetMessages have none
closureRecovers(kind) == kind \in {"static", "init", "tick"}

\* an update closure without recover panics on the event loop
RunUpdateFault ==
  /\ queue # <<>>
  /\ ~closureRecovers(Head(queue).kind)
  /\ obs' = [obs EXCEPT !.exited = TRUE]
  /\ UNCHANGED <<nc, loop, sends, stops, relay, view, queue, anims, parse, boot, app>>

\* ------------------------------------------------------------------ locks
\* The same poll loop and send task, one step per lock operation: lastIDMu
\* and sentIDsMu hold the task that locked them.  Lock blocks until the
\* mutex is free.
Unlocked == <<>>
PollTask == <<"pollLoop">>
SendTask(s) == <<"sendAsync", s>>

\* poll: nc.lastIDMu.Lock()
PollLockCursor ==
  /\ canPoll(loop.pc)
  /\ nc.stopped = 0
  /\ obs.nPolls < MaxPolls
  /\ nc.lastIDMu = Unlocked
  /\ nc' = [nc EXCEPT !.lastIDMu = PollTask]
  /\ loop' = [loop EXCEPT !.pc = "cursorRead"]
  /\ UNCHANGED <<sends, stops, relay, view, queue, anims, obs, parse, boot, app>>

\* poll: lastID := nc.lastID; nc.lastIDMu.Unlock(); the request is sent
PollReadCursor ==
  /\ loop.pc = "cursorRead"
  /\ nc' = [nc EXCEPT !.lastIDMu = Unlocked]
  /\ loop' = [loop EXCEPT !.pc = "inflight", !.reqLastID = requestCursor(nc.lastID)]
  /\ obs' = [obs EXCEPT !.nPolls = @ + 1, !.openPolls = @ + 1]
  /\ UNCHANGED <<sends, stops, relay, view, queue, anims, parse, boot, app>>

\* poll: the 200 arrived and parsePollMessages returned the batch
PollParsed ==
  /\ loop.pc = "inflight"
  /\ RelayPending(loop.reqLastID) # <<>>
  /\ \E msgs \in parsePollMessages(RelayPending(loop.reqLastID)) :
       loop' = [loop EXCEPT !.msgs = msgs,
                            !.pc = IF Len(msgs) > 0 THEN "cursorLock" ELSE "returned"]
  /\ obs' = [obs EXCEPT !.rawBatch = RelayPending(loop.reqLastID)]
  /\ UNCHANGED <<nc, sends, stops, relay, view, queue, anims, parse, boot, app>>

\* poll: nc.lastIDMu.Lock() before the cursor is advanced
PollLockAdvance ==
  /\ loop.pc = "cursorLock"
  /\ nc.lastIDMu = Unlocked
  /\ nc' = [nc EXCEPT !.lastIDMu = PollTask]
  /\ loop' = [loop EXCEPT !.pc = "cursorWrite"]
  /\ UNCHANGED <<sends, stops, relay, view, queue, anims, obs, parse, boot, app>>

\* poll: nc.lastID = msgs[len(msgs)-1].ID; nc.lastIDMu.Unlock()
PollAdvance ==
  /\ loop.pc = "cursorWrite"
  /\ nc' = [nc EXCEPT !.lastID = cursorAfter(@, loop.msgs), !.lastIDMu = Unlocked]
  /\ loop' = [loop EXCEPT !.pc = "returned"]
  /\ UNCHANGED <<sends, stops, relay, view, queue, anims, obs, parse, boot, app>>

\* pollLoop: poll() returned the batch; the success branch up to the dispatch
PollReturned ==
  /\ loop.pc = "returned"
  /\ PollSucceeded("200", IF loop.msgs = <<>> THEN "top" ELSE "dispatch", loop.msgs,
                   obs.rawBatch)
  /\ UNCHANGED <<nc, sends, stops, relay, view, anims, parse, boot, app>>

\* handleIncoming: nc.sentIDsMu.Lock()
IncomingLock ==
  /\ loop.pc = "dispatch"
  /\ nc.sentIDsMu = Unlocked
  /\ nc' = [nc EXCEPT !.sentIDsMu = PollTask]
  /\ loop' = [loop EXCEPT !.pc = "dedup"]
  /\ UNCHANGED <<sends, stops, relay, view, queue, anims, obs, parse, boot, app>>

\* A dedup that returns with sentIDsMu still locked.
muAfterDedupHeld(mu) == mu

\* nc.sentIDsMu.Unlock()
muAfterDedup(mu) == Unlocked

\* handleIncoming: the lookup, the delete and the unlock; an echo ends here
IncomingDedup ==
  /\ loop.pc = "dedup"
  /\ LET m == Head(loop.msgs)
         mine == isMine(nc.sentIDs, m.ID)
     IN /\ nc' = [nc EXCEPT !.sentIDs = sentAfterIncoming(@, m.ID),
                            !.sentIDsMu = muAfterDedup(@)]
        /\ IF mine
           THEN /\ obs' = [obs EXCEPT !.batchDedup = @ + 1]
                /\ loop' = [loop EXCEPT !.msgs = Tail(@),
                                        !.pc = IF Tail(loop.msgs) = <<>> THEN "top"
                                               ELSE "dispatch"]
           ELSE /\ loop' = [loop EXCEPT !.pc = "callback"]
                /\ UNCHANGED obs
  /\ UNCHANGED <<sends, stops, relay, view, queue, anims, parse, boot, app>>

\* handleIncoming: nc.onMessage(msg.Username, msg.Content, msg.Color)
IncomingCallback ==
  /\ loop.pc = "callback"
  /\ LET m == Head(loop.msgs)
     IN /\ obs' = [obs EXCEPT !.delivered = Append(@, Payload(m)), !.late = @ \/ Late]
        /\ AddIncomingMessage(m.Username, m.Content, m.Color)
  /\ loop' = [loop EXCEPT !.msgs = Tail(@),
                          !.pc = IF Tail(loop.msgs) = <<>> THEN "top" ELSE "dispatch"]
  /\ UNCHANGED <<nc, sends, stops, relay, view, parse, boot, app>>

\* sendAsync: 200 with an id decoded; nc.sentIDsMu.Lock()
SendLock(s) ==
  /\ s \in DOMAIN sends /\ sends[s].pc = "responded"
  /\ sends[s].status = 200 /\ sends[s].id # EmptyStr
  /\ nc.sentIDsMu = Unlocked
  /\ nc' = [nc EXCEPT !.sentIDsMu = SendTask(s)]
  /\ sends' = [sends EXCEPT ![s].pc = "register"]
  /\ UNCHANGED <<loop, stops, relay, view, queue, anims, obs, parse, boot, app>>

\* sendAsync: nc.sentIDs[sr.ID] = struct{}{}; nc.sentIDsMu.Unlock()
SendRegister(s) ==
  /\ s \in DOMAIN sends /\ sends[s].pc = "register"
  /\ nc' = [nc EXCEPT !.sentIDs = sentAfterAck(@, sends[s].id), !.sentIDsMu = Unlocked]
  /\ sends' = [sends EXCEPT ![s].pc = "done", ![s].outcome = "ok"]
  /\ UNCHANGED <<loop, stops, relay, view, queue, anims, obs, parse, boot, app>>

\* sendAsync: 200 without an id; nothing is locked
SendNoRegister(s) ==
  /\ s \in DOMAIN sends /\ sends[s].pc = "responded"
  /\ sends[s].status = 200 /\ sends[s].id = EmptyStr
  /\ sends' = [sends EXCEPT ![s].pc = "done", ![s].outcome = "ok"]
  /\ UNCHANGED <<nc, loop, stops, relay, view, queue, anims, obs, parse, boot, app>>

\* ------------------------------------------------------------ update actor
\* A static draw that puts the new line in front of the committed text.
appendStaticFront(committedText, line) == line \o committedText

\* c.committedText += prefix + sanitized + "[-]\n"
appendStatic(committedText, line) == committedText \o line

\* The static draw queued by AddIncomingMessage.
RunStatic ==
  /\ queue # <<>> /\ Head(queue).kind = "static"
  /\ LET t == Head(queue)
     IN view' = IF view.stopped = 1 THEN view
                ELSE renderMessages([view EXCEPT !.committedText =
                       appendStatic(@, t.prefix \o sanitizeContent(t.text) \o <<EndLine>>)])
  /\ queue' = Tail(queue)
  /\ UNCHANGED <<nc, loop, sends, stops, relay, anims, obs, parse, boot, app>>

\* The update queued by the onStatusChange callback of AppController:
\* IsConnected, sendSystem(msg) -> AddMessage, SetOnlineStatus.
RunStatus ==
  /\ queue # <<>> /\ Head(queue).kind = "status"
  /\ LET t == Head(queue)
         msg == [IsSystem |-> TRUE, Username |-> EmptyStr, Content |-> t.text,
                 Color |-> EmptyStr]
         v1 == renderMessages([view EXCEPT !.isConnected = t.connected,
                                           !.committedText = @ \o formatLine(msg)])
     IN view' = IF view.stopped = 1 THEN v1 ELSE [v1 EXCEPT !.headerOnline = t.connected]
  /\ queue' = Tail(queue)
  /\ UNCHANGED <<nc, loop, sends, stops, relay, anims, obs, parse, boot, app>>

\* ------------------------------------------------- render model, event loop
SpaceCursorTok == " [dim]|[-]"

LocalMessages ==
  { [IsSystem |-> FALSE, Username |-> LocalUser, Content |-> <<"m">>, Color |-> LocalColor],
    [IsSystem |-> TRUE, Username |-> EmptyStr, Content |-> <<"info">>, Color |-> EmptyStr] }

ViewAddMessage ==
  /\ obs.nEdits < MaxEdits
  /\ \E msg \in LocalMessages : view' = AddMessage(view, msg)
  /\ obs' = [obs EXCEPT !.nEdits = @ + 1]
  /\ UNCHANGED <<nc, loop, sends, stops, relay, queue, anims, parse, boot, app>>

\* ChatView.ClearMessages, on the event loop (the /clear command)
\* A clear that keeps the generation.
genAfterClearSame(gen) == gen

\* c.inFlightGen++
genAfterClear(gen) == gen + 1

ClearMessages ==
  /\ obs.nEdits < MaxEdits
  /\ view' = renderMessages([view EXCEPT !.committedText = <<>>, !.inFlight = <<>>,
                                         !.inFlightGen = genAfterClear(@)])
  /\ obs' = [obs EXCEPT !.nEdits = @ + 1]
  /\ UNCHANGED <<nc, loop, sends, stops, relay, queue, anims, parse, boot, app>>

\* ChatView.SetMessages, from any goroutine: queues the bulk load
SetMessages ==
  /\ obs.nEdits < MaxEdits
  /\ \E msg \in LocalMessages :
       queue' = IF view.stopped = 1 THEN queue ELSE Append(queue, BulkTask(formatLine(msg)))
  /\ obs' = [obs EXCEPT !.nEdits = @ + 1]
  /\ UNCHANGED <<nc, loop, sends, stops, relay, view, anims, parse, boot, app>>

\* A bulk load that keeps the slots of the running animations.
slotsAfterBulkKept(inFlight) == inFlight

\* c.inFlight = make(map[int]string)
slotsAfterBulk(inFlight) == <<>>

RunBulk ==
  /\ queue # <<>> /\ Head(queue).kind = "bulk"
  /\ view' = IF view.stopped = 1 THEN view
             ELSE renderMessages([view EXCEPT !.committedText = Head(queue).text,
                                              !.inFlight = slotsAfterBulk(@)])
  /\ obs' = IF view.stopped = 1 THEN obs
            ELSE [obs EXCEPT !.discarded = @ \cup DOMAIN view.inFlight]
  /\ queue' = Tail(queue)
  /\ UNCHANGED <<nc, loop, sends, stops, relay, anims, parse, boot, app>>

\* ChatView.Stop
ViewStop ==
  /\ view.stopped = 0
  /\ view' = [view EXCEPT !.stopped = 1]
  /\ UNCHANGED <<nc, loop, sends, stops, relay, queue, anims, obs, parse, boot, app>>

\* ChatView.SetAnimationMode
SetAnimationMode ==
  /\ \E anim \in BOOLEAN :
       /\ view.animMode # (IF anim THEN 1 ELSE 0)
       /\ view' = [view EXCEPT !.animMode = IF anim THEN 1 ELSE 0]
  /\ UNCHANGED <<nc, loop, sends, stops, relay, queue, anims, obs, parse, boot, app>>

\* Bodies and colour tags of the incoming messages of the render specification.
ViewBodies == { <<"a">>, <<"a", " ", "[">>, <<" ">>, EmptyStr }
ViewColors == { <<"[", "g", "]">>, <<"[", "[", "]">> }

\* The onMessage callback on some goroutine: AppController hands the message
\* to ChatView.AddIncomingMessage.
ViewIncoming ==
  /\ obs.nIncoming < MaxIncoming
  /\ \E body \in ViewBodies, color \in ViewColors :
       /\ AddIncomingMessage(<<"bob">>, body, color)
       /\ obs' = [obs EXCEPT !.nIncoming = @ + 1, !.lastIncoming = body]
  /\ UNCHANGED <<nc, loop, sends, stops, relay, view, parse, boot, app>>

SetSlot(inFlight, id, text) == [k \in DOMAIN inFlight \cup {id} |->
                                  IF k = id THEN text ELSE inFlight[k]]
\* A commit that leaves the slot in the map.
DeleteSlotKept(inFlight, id) == inFlight

\* delete(c.inFlight, animID)
DeleteSlot(inFlight, id) == [k \in DOMAIN inFlight \ {id} |-> inFlight[k]]

\* An allocation that hands out the same id again.
nextIdAfterSame(nextAnimID) == nextAnimID

\* c.nextAnimID++
nextIdAfter(nextAnimID) == nextAnimID + 1

\* anim-init on the event loop: the slot is allocated and sent on slotCh
RunInit ==
  /\ queue # <<>> /\ Head(queue).kind = "init"
  /\ LET t == Head(queue)
         animID == view.nextAnimID
     IN IF view.stopped = 1
        THEN /\ anims' = [anims EXCEPT ![t.anim].sent = TRUE]
             /\ UNCHANGED <<view, obs>>
        ELSE /\ anims' = [anims EXCEPT ![t.anim].sent = TRUE, ![t.anim].id = animID,
                                       ![t.anim].gen = view.inFlightGen]
             /\ obs' = [obs EXCEPT !.slotWrites = Append(@, 1),
                                   !.slotCommits = Append(@, 0),
                                   !.commitText = Append(@, <<>>)]
             /\ view' = renderMessages([view EXCEPT
                          !.nextAnimID = nextIdAfter(@),
                          !.inFlight = SetSlot(@, animID, t.prefix \o <<CursorTok>>)])
  /\ queue' = Tail(queue)
  /\ UNCHANGED <<nc, loop, sends, stops, relay, parse, boot, app>>

\* the goroutine receives its slot: slot := <-slotCh
AnimRecvSlot(a) ==
  /\ a \in DOMAIN anims /\ anims[a].pc = "waitSlot" /\ anims[a].sent
  /\ anims' = [anims EXCEPT ![a].pc = IF anims[a].id < 0 \/ view.stopped = 1
                                      THEN "aborted" ELSE "loop"]
  /\ UNCHANGED <<nc, loop, sends, stops, relay, view, queue, obs, parse, boot, app>>

\* top of the word loop: the stopped check, then the sleep starts
AnimCheck(a) ==
  /\ a \in DOMAIN anims /\ anims[a].pc = "loop"
  /\ anims' = [anims EXCEPT ![a].pc = IF view.stopped = 1 THEN "aborted" ELSE "sleep"]
  /\ UNCHANGED <<nc, loop, sends, stops, relay, view, queue, obs, parse, boot, app>>

\* A word loop that never sees its last word.
isLastWordNever(n, words) == FALSE

\* isLast := i == len(words)-1, for the n-th word
isLastWord(n, words) == n = Len(words)

\* A word tick that carries the new word alone.
snapshotWordOnly(words, n) == words[n]

\* snapshot := built, after the n-th word has been joined
snapshot(words, n) == Built(words, n)

\* the sleep is over: the next word is appended and the word tick queued
AnimTick(a) ==
  /\ a \in DOMAIN anims /\ anims[a].pc = "sleep"
  /\ LET r == anims[a]
         n == r.i + 1
         isLast == isLastWord(n, r.words)
     IN /\ queue' = Append(queue, TickTask(r.prefix, snapshot(r.words, n), r.id, r.gen, isLast))
        /\ anims' = [anims EXCEPT ![a].i = n, ![a].pc = IF isLast THEN "done" ELSE "loop"]
  /\ UNCHANGED <<nc, loop, sends, stops, relay, view, obs, parse, boot, app>>

\* A word tick that never sees a stale generation.
tickIsStaleNever(myGen, inFlightGen) == FALSE

\* if c.inFlightGen != myGen { return }
tickIsStale(myGen, inFlightGen) == inFlightGen # myGen

\* A commit that replaces the committed text by the new line.
commitLineOver(committedText, line) == line

\* A commit that puts the new line in front of the committed text.
commitLineFront(committedText, line) == line \o committedText

\* c.committedText += prefix + sanitized + "[-]\n"
commitLine(committedText, line) == committedText \o line

\* A word tick that ignores the stopped flag.
tickBailsNever(stopped) == FALSE

\* if atomic.LoadInt32(&c.stopped) == 1 { return }
tickBails(stopped) == stopped = 1

\* A word tick that writes its slot only while the slot is still in the map.
slotAfterTickIfPresent(inFlight, id, text) ==
  IF id \in DOMAIN inFlight THEN SetSlot(inFlight, id, text) ELSE inFlight

\* c.inFlight[animID] = prefix + sanitized + " [dim]|[-]"
slotAfterTick(inFlight, id, text) == SetSlot(inFlight, id, text)

\* the word tick on the event loop
RunTick ==
  /\ queue # <<>> /\ Head(queue).kind = "tick"
  /\ LET t == Head(queue)
         sanitized == sanitizeContent(t.text)
     IN IF tickBails(view.stopped)
        THEN UNCHANGED <<view, obs>>
        ELSE IF tickIsStale(t.gen, view.inFlightGen)
        THEN /\ obs' = [obs EXCEPT !.staleRun = TRUE]
             /\ UNCHANGED view
        ELSE /\ view' = renderMessages(
                  IF t.isLast
                  THEN [view EXCEPT !.inFlight = DeleteSlot(@, t.animID),
                                    !.committedText =
                                       commitLine(@, t.prefix \o sanitized \o <<EndLine>>)]
                  ELSE [view EXCEPT !.inFlight =
                          slotAfterTick(@, t.animID,
                                        t.prefix \o sanitized \o <<SpaceCursorTok>>)])
             /\ obs' = IF t.isLast
                       THEN [obs EXCEPT !.slotCommits[t.animID + 1] = @ + 1,
                                        !.commitText[t.animID + 1] =
                                           t.prefix \o sanitized \o <<EndLine>>]
                       ELSE [obs EXCEPT !.slotWrites[t.animID + 1] = @ + 1]
  /\ queue' = Tail(queue)
  /\ UNCHANGED <<nc, loop, sends, stops, relay, anims, parse, boot, app>>

\* ------------------------------------------------------------ parser harness
ParseSamples ==
  SampleEntries \cup
    { [alice |-> JStr(<<"h", "i">>), zed |-> JStr(EmptyStr), id |-> JStr(IdOf(3))] }

ParseApply ==
  /\ ~parse.done
  /\ \E out \in parsePollMessages(parse.raw) :
       parse' = [parse EXCEPT !.out = out, !.done = TRUE]
  /\ UNCHANGED <<nc, loop, sends, stops, relay, view, queue, anims, obs, boot, app>>

\* ---------------------------------------------------------------- startup
\* The loading screen of main: the progress steps, the health check of the
\* relay, and then either the login screen or the fatal countdown and
\* app.Stop().  boot.resp is what GET /health comes back with.
LoadingSteps ==
  << [progress |-> 10, label |-> "Initializing"],
     [progress |-> 20, label |-> "Loading modules"],
     [progress |-> 40, label |-> "Preparing encryption"],
     [progress |-> 60, label |-> "Checking configuration"],
     [progress |-> 80, label |-> "Contacting relay server"],
     [progress |-> 90, label |-> "Verifying connection"],
     [progress |-> 100, label |-> ""] >>

\* Status codes a response can carry: three digits, of which the transport
\* keeps 1xx (other than 101) to itself.
HealthStatuses == {101, 200, 204, 299, 304, 400, 401, 404, 499, 500, 502, 503, 599, 600, 999}

HealthResponses ==
  { [failed |-> TRUE, status |-> 0] } \cup
  { [failed |-> FALSE, status |-> c] : c \in HealthStatuses }

\* A check that looks at the request error only.
CheckIgnoresStatus(resp) == IF resp.failed THEN "not available" ELSE "nil"

\* CheckServerConnectivity: the error it returns, "nil" for none
CheckServerConnectivity(resp) ==
  IF resp.failed THEN "not available"
  ELSE IF resp.status >= 500 THEN "returned HTTP"
  ELSE "nil"

\* for _, s := range steps { UpdateProgress; SetStatus when the label is set }
BootStep ==
  /\ boot.pc = "steps"
  /\ boot.step < Len(LoadingSteps)
  /\ LET st == LoadingSteps[boot.step + 1]
     IN boot' = [boot EXCEPT !.step = @ + 1, !.progress = st.progress,
                             !.status = IF st.label # "" THEN st.label ELSE @]
  /\ UNCHANGED <<nc, loop, sends, stops, relay, view, queue, anims, obs, parse, app>>

\* connErr := CheckServerConnectivity(DefaultServerURL) and the branch on it
BootCheck ==
  /\ boot.pc = "steps"
  /\ boot.step = Len(LoadingSteps)
  /\ LET connErr == CheckServerConnectivity(boot.resp)
     IN boot' = IF connErr # "nil"
                THEN [boot EXCEPT !.pc = "fatal", !.connErr = connErr, !.fatal = TRUE,
                                  !.status = "Contacting relay server",
                                  !.countdown = 4, !.i = 3]
                ELSE [boot EXCEPT !.pc = "connected", !.connErr = connErr,
                                  !.status = "Connected"]
  /\ UNCHANGED <<nc, loop, sends, stops, relay, view, queue, anims, obs, parse, app>>

\* for i := 3; i >= 0; i-- { SetCountdown(i) }
BootCountdown ==
  /\ boot.pc = "fatal"
  /\ boot.i >= 0
  /\ boot' = [boot EXCEPT !.countdown = boot.i, !.i = @ - 1]
  /\ UNCHANGED <<nc, loop, sends, stops, relay, view, queue, anims, obs, parse, app>>

\* app.Stop() after the countdown
BootAppStop ==
  /\ boot.pc = "fatal"
  /\ boot.i < 0
  /\ boot' = [boot EXCEPT !.pc = "stopped"]
  /\ UNCHANGED <<nc, loop, sends, stops, relay, view, queue, anims, obs, parse, app>>

\* ctrl.SM.Transition(models.ScreenLogin)
BootLogin ==
  /\ boot.pc = "connected"
  /\ boot' = [boot EXCEPT !.pc = "done", !.screen = "login"]
  /\ UNCHANGED <<nc, loop, sends, stops, relay, view, queue, anims, obs, parse, app>>

\* --------------------------------------------------------- specifications
NetInit ==
  /\ nc = [stopped |-> 0, stopCh |-> "open", lastID |-> EmptyStr, sentIDs |-> {},
           lastIDMu |-> Unlocked, sentIDsMu |-> Unlocked]
  /\ loop = [pc |-> "idle", backoff |-> initialBackoff, firstConnect |-> TRUE,
             wasConnected |-> FALSE, msgs |-> <<>>, reqLastID |-> EmptyStr]
  /\ sends = <<>>
  /\ stops = [c \in 1..MaxStopCalls |-> "idle"]
  /\ relay = [log |-> <<>>, nextId |-> 1]
  /\ obs = [nPolls |-> 0, nForeign |-> 0, delivered |-> <<>>, late |-> FALSE,
            consecFails |-> 0, discInRun |-> 0, connInRun |-> 0,
            lastOutcome |-> "none", rawBatch |-> <<>>, batchStart |-> 0,
            batchDedup |-> 0, nClose |-> 0, nIncoming |-> 0, nEdits |-> 0,
            staleRun |-> FALSE, slotWrites |-> <<>>, slotCommits |-> <<>>,
            commitText |-> <<>>, openPolls |-> 0, lastIncoming |-> <<"none">>, discarded |-> {},
            exited |-> FALSE]

ViewInit ==
  /\ view = [stopped |-> 0, animMode |-> 0, committedText |-> <<>>, inFlight |-> <<>>,
             nextAnimID |-> 0, inFlightGen |-> 0, shown |-> <<>>,
             headerOnline |-> TRUE, isConnected |-> FALSE]
  /\ queue = <<>>
  /\ anims = <<>>

ParseIdle == parse = [raw |-> <<>>, out |-> <<>>, done |-> FALSE]

BootEntered(resp) ==
  [pc |-> "steps", step |-> 0, progress |-> 0, status |-> "", resp |-> resp,
   connErr |-> "nil", fatal |-> FALSE, countdown |-> 0, i |-> 0, screen |-> "loading"]

BootIdle == boot = BootEntered([failed |-> FALSE, status |-> 200])

AppInit == app = [netClient |-> NoClient, before |-> NoClient, created |-> 0,
                  pollers |-> <<>>]

Init == NetInit /\ ViewInit /\ ParseIdle /\ BootIdle /\ AppInit

\* Sends, polls and dedup: the client and the relay, with no failure of
\* the poll and no Stop.  The event loop runs OnSendMessage only, so the
\* update queue keeps every update the callbacks submitted, in order.
Next ==
  \/ NetStart
  \/ ForeignPost
  \/ OnSendMessage
  \/ \E s \in 1..MaxPosts : RelayAcceptSend(s)
  \/ \E s \in 1..MaxPosts : RelayRejectSend(s)
  \/ \E s \in 1..MaxPosts : SendTransportError(s)
  \/ \E s \in 1..MaxPosts : SendComplete(s)
  \/ PollIssue(MaxPolls)
  \/ Poll204
  \/ Poll200
  \/ HandleIncoming
  \/ PauseElapsed

Spec == Init /\ [][Next]_vars

\* The same with the event loop running the queued updates.
NextEcho ==
  \/ NetStart
  \/ ForeignPost
  \/ OnSendMessage
  \/ \E s \in 1..MaxPosts : RelayAcceptSend(s)
  \/ \E s \in 1..MaxPosts : RelayRejectSend(s)
  \/ \E s \in 1..MaxPosts : SendTransportError(s)
  \/ \E s \in 1..MaxPosts : SendComplete(s)
  \/ PollIssue(MaxPolls)
  \/ Poll204
  \/ Poll200
  \/ HandleIncoming
  \/ PauseElapsed
  \/ RunStatic
  \/ RunStatus

SpecEcho == Init /\ [][NextEcho]_vars

\* The poll loop: every outcome of a cycle and both waits, with the
\* messages of other clients.
NextLoop ==
  \/ NetStart
  \/ ForeignPost
  \/ PollIssue(MaxLoopPolls)
  \/ PollFail
  \/ Poll204
  \/ Poll200
  \/ HandleIncoming
  \/ BackoffElapsed
  \/ PauseElapsed

SpecLoop == Init /\ [][NextLoop]_vars

\* The poll loop and the callers of Stop.
NextHalt ==
  \/ NetStart
  \/ \E c \in 1..MaxStopCalls : StopCas(c)
  \/ \E c \in 1..MaxStopCalls : StopClose(c)
  \/ PollIssue(MaxPolls)
  \/ LoopExit
  \/ PollFail
  \/ Poll204
  \/ BackoffElapsed
  \/ BackoffStopped
  \/ PauseElapsed
  \/ PauseStopped

SpecHalt == Init /\ [][NextHalt]_vars

\* The poll loop with every outcome of a cycle and the callers of Stop,
\* under fair scheduling: a poll in flight returns, a timer fires, and the
\* loop goroutine takes its next step.
NextQuit ==
  \/ NetStart
  \/ \E c \in 1..MaxStopCalls : StopCas(c)
  \/ \E c \in 1..MaxStopCalls : StopClose(c)
  \/ ForeignPost
  \/ PollIssue(MaxPolls)
  \/ LoopExit
  \/ PollFail
  \/ Poll204
  \/ Poll200
  \/ HandleIncoming
  \/ BackoffElapsed
  \/ BackoffStopped
  \/ PauseElapsed
  \/ PauseStopped

CallsReturn == WF_vars(PollFail \/ Poll204 \/ Poll200)

LoopFair == WF_vars(LoopExit \/ HandleIncoming \/ BackoffElapsed \/ BackoffStopped
                             \/ PauseElapsed \/ PauseStopped)

SpecQuit == Init /\ [][NextQuit]_vars /\ CallsReturn /\ LoopFair

\* Static mode: other clients post messages whose bodies tell them apart,
\* the poll loop delivers them batch by batch and the event loop draws them.
ArrivalMarks == <<"p", "q", "r", "s">>
ArrivalBody(n) == <<ArrivalMarks[((n - 1) % Len(ArrivalMarks)) + 1]>>

ArrivalPost ==
  /\ obs.nForeign < MaxArrivals
  /\ relay' = RelayAppend(GoodEntry("alice", ArrivalBody(relay.nextId), <<"[", "g", "]">>,
                                    relay.nextId))
  /\ obs' = [obs EXCEPT !.nForeign = @ + 1]
  /\ UNCHANGED <<nc, loop, sends, stops, view, queue, anims, parse, boot, app>>

NextOrder ==
  \/ NetStart
  \/ ArrivalPost
  \/ PollIssue(MaxPolls)
  \/ Poll204
  \/ Poll200
  \/ HandleIncoming
  \/ PauseElapsed
  \/ RunStatic
  \/ RunStatus

SpecOrder == Init /\ [][NextOrder]_vars

\* Sends, polls, failures and Stop together.
NextStop ==
  \/ NetStart
  \/ \E c \in 1..MaxStopCalls : StopCas(c)
  \/ \E c \in 1..MaxStopCalls : StopClose(c)
  \/ ForeignPost
  \/ OnSendMessage
  \/ \E s \in 1..MaxPosts : RelayAcceptSend(s)
  \/ \E s \in 1..MaxPosts : RelayRejectSend(s)
  \/ \E s \in 1..MaxPosts : SendTransportError(s)
  \/ \E s \in 1..MaxPosts : SendComplete(s)
  \/ PollIssue(MaxPolls)
  \/ LoopExit
  \/ PollFail
  \/ Poll204
  \/ Poll200
  \/ HandleIncoming
  \/ BackoffElapsed
  \/ BackoffStopped
  \/ PauseElapsed
  \/ PauseStopped

SpecStop == Init /\ [][NextStop]_vars

\* The render model: the event loop, the animation goroutines and the
\* callers of the ChatView API.
NextView ==
  \/ ViewAddMessage
  \/ ClearMessages
  \/ SetMessages
  \/ ViewStop
  \/ SetAnimationMode
  \/ ViewIncoming
  \/ RunStatic
  \/ RunBulk
  \/ RunInit
  \/ \E a \in 1..MaxIncoming : AnimRecvSlot(a)
  \/ \E a \in 1..MaxIncoming : AnimCheck(a)
  \/ \E a \in 1..MaxIncoming : AnimTick(a)
  \/ RunTick

SpecView == Init /\ [][NextView]_vars

\* Acknowledged sends and the poll loop with every outcome of a cycle,
\* without Stop.
NextSync ==
  \/ NetStart
  \/ ForeignPost
  \/ OnSendMessage
  \/ \E s \in 1..MaxPosts : RelayAcceptSend(s)
  \/ \E s \in 1..MaxPosts : SendComplete(s)
  \/ PollIssue(MaxPolls)
  \/ PollFail
  \/ Poll204
  \/ Poll200
  \/ HandleIncoming
  \/ BackoffElapsed
  \/ PauseElapsed

SpecSync == Init /\ [][NextSync]_vars

\* The client with the event loop running, and a panic possible in the poll
\* loop, in a send task and in an update closure; nothing runs once the
\* process has exited.
NextFault ==
  /\ ~obs.exited
  /\ \/ NetStart
     \/ ForeignPost
     \/ OnSendMessage
     \/ \E s \in 1..MaxPosts : RelayAcceptSend(s)
     \/ \E s \in 1..MaxPosts : SendComplete(s)
     \/ PollIssue(MaxPolls)
     \/ PollFail
     \/ Poll204
     \/ Poll200
     \/ HandleIncoming
     \/ BackoffElapsed
     \/ PauseElapsed
     \/ RunStatic
     \/ RunStatus
     \/ PollLoopFault
     \/ \E s \in 1..MaxPosts : SendFault(s)
     \/ RunStaticFault
     \/ RunUpdateFault

SpecFault == Init /\ [][NextFault]_vars

\* The network clients of one AppController and their stats pollers.
NextStats ==
  \/ AppLogin
  \/ AppServerCommand
  \/ AppStopBot
  \/ \E p \in 1..MaxClients : StatsFirstFetch(p)
  \/ \E p \in 1..MaxClients : StatsTick(p)

SpecStats == Init /\ [][NextStats]_vars

\* The poll loop and the send tasks with one step per lock operation.
NextLocks ==
  \/ NetStart
  \/ ForeignPost
  \/ OnSendMessage
  \/ \E s \in 1..MaxPosts : RelayAcceptSend(s)
  \/ \E s \in 1..MaxPosts : SendLock(s)
  \/ \E s \in 1..MaxPosts : SendRegister(s)
  \/ \E s \in 1..MaxPosts : SendNoRegister(s)
  \/ PollLockCursor
  \/ PollReadCursor
  \/ PollFail
  \/ Poll204
  \/ PollParsed
  \/ PollLockAdvance
  \/ PollAdvance
  \/ PollReturned
  \/ IncomingLock
  \/ IncomingDedup
  \/ IncomingCallback
  \/ BackoffElapsed
  \/ PauseElapsed

SpecLocks == Init /\ [][NextLocks]_vars

\* The send tasks and the callers of Stop, without the poll loop.
NextSend ==
  \/ \E c \in 1..MaxStopCalls : StopCas(c)
  \/ \E c \in 1..MaxStopCalls : StopClose(c)
  \/ OnSendMessage
  \/ \E s \in 1..MaxPosts : RelayAcceptSend(s)
  \/ \E s \in 1..MaxPosts : RelayRejectSend(s)
  \/ \E s \in 1..MaxPosts : SendTransportError(s)
  \/ \E s \in 1..MaxPosts : SendComplete(s)

SpecSend == Init /\ [][NextSend]_vars

\* The word animation: incoming messages of one and of three words, the
\* animation goroutines, the event loop, clear and Stop.
AnimBodies == { <<"a">>, <<"a", " ", "b", "b", " ", "c", "c", "c">> }

AnimIncoming ==
  /\ obs.nIncoming < MaxIncoming
  /\ \E body \in AnimBodies : AddIncomingMessage(<<"bob">>, body, <<"[", "g", "]">>)
  /\ obs' = [obs EXCEPT !.nIncoming = @ + 1]
  /\ UNCHANGED <<nc, loop, sends, stops, relay, view, parse, boot, app>>

NextAnim ==
  \/ SetAnimationMode
  \/ AnimIncoming
  \/ ClearMessages
  \/ ViewStop
  \/ RunStatic
  \/ RunInit
  \/ \E a \in 1..MaxIncoming : AnimRecvSlot(a)
  \/ \E a \in 1..MaxIncoming : AnimCheck(a)
  \/ \E a \in 1..MaxIncoming : AnimTick(a)
  \/ RunTick

SpecAnim == Init /\ [][NextAnim]_vars

\* Several animations at once: incoming messages arriving in animation
\* mode, the first of two words and the later ones of one word, their
\* goroutines, the event loop, a local line, clear and the bulk load.
SlotBody(n) == IF n = 1 THEN <<"a", " ", "b">> ELSE <<"c">>

SlotIncoming ==
  /\ obs.nIncoming < MaxSlots
  /\ view.animMode = 1
  /\ AddIncomingMessage(<<"bob">>, SlotBody(obs.nIncoming + 1), <<"[", "g", "]">>)
  /\ obs' = [obs EXCEPT !.nIncoming = @ + 1]
  /\ UNCHANGED <<nc, loop, sends, stops, relay, view, parse, boot, app>>

NextSlots ==
  \/ SetAnimationMode
  \/ SlotIncoming
  \/ ViewAddMessage
  \/ ClearMessages
  \/ SetMessages
  \/ RunBulk
  \/ RunInit
  \/ \E a \in 1..MaxSlots : AnimRecvSlot(a)
  \/ \E a \in 1..MaxSlots : AnimCheck(a)
  \/ \E a \in 1..MaxSlots : AnimTick(a)
  \/ RunTick

SpecSlots == Init /\ [][NextSlots]_vars

\* The same with Stop, under fair scheduling: the event loop runs the update
\* at the head of its queue, and every animation goroutine takes its next
\* step (the receive from slotCh, the stopped check, the end of its sleep).
NextLive ==
  \/ SetAnimationMode
  \/ SlotIncoming
  \/ ViewAddMessage
  \/ ClearMessages
  \/ SetMessages
  \/ ViewStop
  \/ RunBulk
  \/ RunInit
  \/ \E a \in 1..MaxSlots : AnimRecvSlot(a)
  \/ \E a \in 1..MaxSlots : AnimCheck(a)
  \/ \E a \in 1..MaxSlots : AnimTick(a)
  \/ RunTick

EventLoopFair == WF_vars(RunBulk \/ RunInit \/ RunTick)

AnimFair == \A a \in 1..MaxSlots : WF_vars(AnimRecvSlot(a) \/ AnimCheck(a) \/ AnimTick(a))

SpecLive == Init /\ [][NextLive]_vars /\ EventLoopFair /\ AnimFair

\* parsePollMessages applied to every array of at most MaxBatch sample entries.
ParseInit ==
  /\ NetInit /\ ViewInit /\ BootIdle /\ AppInit
  /\ parse \in {[raw |-> r, out |-> <<>>, done |-> FALSE] : r \in SeqsUpTo(ParseSamples, MaxBatch)}

SpecParse == ParseInit /\ [][ParseApply]_vars

\* The loading screen against every answer of GET /health.
BootInit ==
  /\ NetInit /\ ViewInit /\ ParseIdle /\ AppInit
  /\ boot \in { BootEntered(r) : r \in HealthResponses }

NextBoot ==
  \/ BootStep
  \/ BootCheck
  \/ BootCountdown
  \/ BootAppStop
  \/ BootLogin

SpecBoot == BootInit /\ [][NextBoot]_vars


\* ------------------------------------------------------------------ claims

\* C1: every locally sent message appears exactly once in the transcript,
\* whether its echo is polled before or after the acknowledgement registered
\* the id in sentIDs.
C1_LocalShownOnce ==
  \A s \in DOMAIN sends : Count(view.shown, ToString(s)) = 1

\* C2: handleIncoming on an entry whose id is in sentIDs removes the id and
\* does not call onMessage; on any other entry it calls onMessage once with
\* the entry's author, body and colour and leaves sentIDs unchanged.
C2_DedupRule ==
  [][ (loop.pc = "dispatch" /\ loop' # loop) =>
        LET m == Head(loop.msgs)
        IN IF m.ID \in nc.sentIDs
           THEN /\ nc'.sentIDs = nc.sentIDs \ {m.ID}
                /\ obs'.delivered = obs.delivered
                /\ queue' = queue
           ELSE /\ nc'.sentIDs = nc.sentIDs
                /\ obs'.delivered = Append(obs.delivered, Payload(m))
                /\ Len(queue') = Len(queue) + 1
                /\ Last(queue').kind = "static"
                /\ Last(queue').text = m.Content ]_vars

C2_Witness ==
  /\ obs.batchDedup >= 1
  /\ Len(obs.delivered) >= 1
  /\ nc.sentIDs = {}
  /\ loop.pc = "top"

\* C3: a batch of well-formed entries none of which is recognised as an echo
\* is delivered entry by entry, in order, once each, and the cursor is the
\* id of the last entry of the batch.
C3_BatchDelivered ==
  ( /\ obs.lastOutcome = "200"
    /\ obs.batchDedup = 0
    /\ \A i \in 1..Len(obs.rawBatch) : EntryOk(obs.rawBatch[i]) )
  => LET n == Len(obs.rawBatch)
         done == IF loop.pc = "dispatch" THEN n - Len(loop.msgs) ELSE n
     IN /\ Len(obs.delivered) = obs.batchStart + done
        /\ \A i \in 1..done : obs.delivered[obs.batchStart + i] = RawPayload(obs.rawBatch[i])
        /\ nc.lastID = StrField(obs.rawBatch[n], "id")

C3_Witness ==
  /\ obs.lastOutcome = "200"
  /\ obs.batchDedup = 0
  /\ Len(obs.rawBatch) = 2
  /\ \A i \in 1..2 : EntryOk(obs.rawBatch[i])
  /\ loop.pc = "top"
  /\ Len(obs.delivered) = obs.batchStart + 2
  /\ nc.lastID = IdOf(2)

\* The messages the wire contract lets through: the entries that are
\* complete, in the order of the array.
RECURSIVE CompleteEntries(_)
CompleteEntries(rawList) ==
  IF rawList = <<>> THEN <<>>
  ELSE (IF EntryOk(Head(rawList)) THEN <<RawPayload(Head(rawList))>> ELSE <<>>)
         \o CompleteEntries(Tail(rawList))

\* C4: in a batch whose entries are each complete or missing a field, the
\* entries missing a field are dropped one by one and every complete entry
\* is returned, in order, whatever the positions of the dropped ones.
C4_PerEntryDrop ==
  ( /\ parse.done
    /\ \A i \in 1..Len(parse.raw) : EntryOk(parse.raw[i]) \/ EntryMissing(parse.raw[i]) )
  => /\ parse.out = CompleteEntries(parse.raw)
     /\ Len(parse.out) = Cardinality({i \in 1..Len(parse.raw) : EntryOk(parse.raw[i])})

C4_Witness ==
  /\ parse.done
  /\ Len(parse.raw) = 3
  /\ EntryMissing(parse.raw[1]) /\ EntryOk(parse.raw[2]) /\ EntryMissing(parse.raw[3])
  /\ Len(parse.out) = 1

\* C5: once Stop has set the stopped flag, neither onMessage nor
\* onStatusChange is invoked again.
C5_NoCallbackAfterStop == ~obs.late

\* C6: any number of Stop calls acts as one: the flag goes from 0 to 1 and
\* stays, stopCh is closed exactly once, and every call can run to its end.
C6_StopOnce ==
  /\ obs.nClose <= 1
  /\ (nc.stopCh = "closed") <=> (obs.nClose = 1)
  /\ (nc.stopped = 1) <=> (\E c \in DOMAIN stops : stops[c] # "idle")
  /\ (\A c \in DOMAIN stops : stops[c] = "done") => nc.stopCh = "closed"
  /\ \A c \in DOMAIN stops : stops[c] # "done" => ENABLED (StopCas(c) \/ StopClose(c))

C6_Witness ==
  /\ \A c \in DOMAIN stops : stops[c] = "done"
  /\ Cardinality(DOMAIN stops) >= 2
  /\ obs.nClose = 1

\* C7: the delay waited after the k-th consecutive failed cycle is
\* min(2^(k-1), 30), and after a successful cycle the next delay is 1.
C7_Backoff ==
  LET k == obs.consecFails
  IN /\ loop.pc = "backoffWait" => k >= 1 /\ loop.backoff = minDur(2^(k - 1), 30)
     /\ loop.pc # "backoffWait" => loop.backoff = minDur(2^k, 30)
     /\ loop.backoff <= 30

C7_Witness ==
  /\ loop.pc = "backoffWait"
  /\ obs.consecFails = 6
  /\ loop.backoff = 30

\* C8: in a run of consecutive failed cycles at most one disconnected
\* notification fires, and in a run of consecutive successful cycles at most
\* one connected notification.
C8_EdgeOnly == obs.discInRun <= 1 /\ obs.connInRun <= 1

\* C9: a word tick whose generation is not the current one changes nothing
\* of the render model, and a slot allocated before a clear never shows up
\* in the slot map again.
C9_StaleTickNoOp ==
  /\ [](\A a \in DOMAIN anims :
          (anims[a].id >= 0 /\ anims[a].gen # view.inFlightGen)
            => anims[a].id \notin DOMAIN view.inFlight)
  /\ [][ ( /\ queue # <<>>
           /\ Head(queue).kind = "tick"
           /\ Head(queue).gen # view.inFlightGen
           /\ queue' = Tail(queue) ) => view' = view ]_vars

C9_Witness ==
  /\ obs.staleRun
  /\ view.inFlightGen = 1
  /\ \E a \in DOMAIN anims : anims[a].pc = "sleep" /\ anims[a].gen = 0
  /\ view.committedText = <<>>

\* C10: every step of the render model that is neither a clear nor a bulk
\* load keeps the committed text as a prefix of the new committed text.
C10_AppendOnly ==
  [][ ( /\ view'.inFlightGen = view.inFlightGen
        /\ ~(queue # <<>> /\ Head(queue).kind = "bulk" /\ queue' = Tail(queue)) )
      => IsPrefix(view.committedText, view'.committedText) ]_vars

C10_Witness ==
  /\ Count(view.committedText, EndLine) = 2
  /\ \E a \in DOMAIN anims : anims[a].pc = "done" /\ anims[a].i >= 2
  /\ view.inFlight = <<>>
  /\ queue = <<>>

\* The text of the live slots, smallest slot id first.
RECURSIVE AscendingText(_, _)
AscendingText(inFlight, ids) ==
  IF ids = {} THEN <<>>
  ELSE LET m == CHOOSE m \in ids : \A j \in ids : m <= j
       IN inFlight[m] \o AscendingText(inFlight, ids \ {m})

FullLine(r) == r.prefix \o sanitizeContent(Built(r.words, Len(r.words))) \o <<EndLine>>

\* The word ticks of slot id that are queued and have not run yet.
PendingTicks(id) ==
  Cardinality({k \in 1..Len(queue) : queue[k].kind = "tick" /\ queue[k].animID = id})

\* C12: with no stop and no clear, an animation of n words gives its slot
\* exactly n texts (the cursor at allocation, then one per word but the
\* last), then commits the full line exactly once; the commit retires the
\* slot and nothing is written to it afterwards.
C12_AnimationSteps ==
  \A a \in DOMAIN anims :
    LET r == anims[a]
        n == Len(r.words)
    IN (r.id >= 0 /\ view.stopped = 0 /\ r.gen = view.inFlightGen) =>
         LET writes == obs.slotWrites[r.id + 1]
             commits == obs.slotCommits[r.id + 1]
             pend == PendingTicks(r.id)
         IN /\ writes + commits + pend = 1 + r.i
            /\ writes <= n
            /\ commits <= 1
            /\ commits = 1 => /\ writes = n
                              /\ pend = 0
                              /\ r.pc = "done"
                              /\ obs.commitText[r.id + 1] = FullLine(r)
                              /\ r.id \notin DOMAIN view.inFlight
            /\ (r.pc = "done" /\ pend = 0) => commits = 1

C12_Witness ==
  /\ view.stopped = 0
  /\ \E a \in DOMAIN anims :
       /\ anims[a].id >= 0 /\ anims[a].gen = view.inFlightGen
       /\ Len(anims[a].words) = 3
       /\ obs.slotWrites[anims[a].id + 1] = 3
       /\ obs.slotCommits[anims[a].id + 1] = 1
       /\ PendingTicks(anims[a].id) = 0

\* C13: once ChatView.Stop has set the stopped flag, no slot is written,
\* committed or removed by an animation: until the next ClearMessages the
\* slot map and the committed text stay as they were.
C13_AbortedSlotStays ==
  [][ (view.stopped = 1 /\ view'.inFlightGen = view.inFlightGen) =>
        /\ view'.inFlight = view.inFlight
        /\ view'.committedText = view.committedText
        /\ obs'.slotWrites = obs.slotWrites
        /\ obs'.slotCommits = obs.slotCommits ]_vars

C13_Witness ==
  /\ view.stopped = 1
  /\ queue = <<>>
  /\ \E a \in DOMAIN anims :
       /\ anims[a].pc = "aborted"
       /\ Len(anims[a].words) = 3
       /\ anims[a].i = 2
       /\ anims[a].id \in DOMAIN view.inFlight
       /\ obs.slotWrites[anims[a].id + 1] = 2
       /\ obs.slotCommits[anims[a].id + 1] = 0

\* The failure reports of the send tasks that the callbacks queued.
SendFailureReports ==
  Cardinality({k \in 1..Len(queue) :
                 /\ queue[k].kind = "status"
                 /\ ~queue[k].connected
                 /\ queue[k].text \in {SendFailedMsg, RejectedMsg}})

\* C14: every send that ended in a transport error, a 401 or another status
\* that is not 200/201 was reported through onStatusChange.
C14_SendFailureReported ==
  Cardinality({s \in DOMAIN sends : sends[s].outcome \in {"transport", "401", "other"}})
    <= SendFailureReports

\* The POST requests the relay accepted from this client.
AcceptedPosts == Cardinality({i \in 1..Len(relay.log) : "me" \in DOMAIN relay.log[i]})

\* C15: a send call never waits (it can be made whatever the other sends
\* are doing), its task issues at most one POST and never goes back to
\* issuing one, and a call made after Stop issues none.
C15_SendOnce ==
  /\ [](Len(sends) + obs.nForeign < MaxPosts => ENABLED OnSendMessage)
  /\ [](AcceptedPosts <= Cardinality({s \in DOMAIN sends : sends[s].pc \in {"responded", "done"}}))
  /\ [][ /\ \A s \in DOMAIN sends :
              /\ sends'[s].pc = "inflight" => sends[s].pc = "inflight"
              /\ sends[s].pc \in {"notsent", "done"} => sends'[s] = sends[s]
         /\ (Len(sends') > Len(sends) /\ nc.stopped = 1) =>
              /\ sends'[Len(sends')].pc = "notsent"
              /\ relay' = relay /\ queue' = queue ]_vars

C15_Witness ==
  /\ Len(sends) = 2
  /\ nc.stopped = 1
  /\ sends[1].pc = "inflight"
  /\ sends[2].pc = "notsent"

\* The transcript line of the s-th local message.
LocalLine(s) ==
  formatLine([IsSystem |-> FALSE, Username |-> LocalUser, Content |-> sends[s].content,
              Color |-> LocalColor])

Contains(text, line) ==
  \E i \in 1..(Len(text) - Len(line) + 1) :
    text[i] = line[1] /\ SubSeq(text, i, i + Len(line) - 1) = line

\* C16: from the moment the send task of a local message exists, and so
\* before any acknowledgement or echo of it, the line of the message is in
\* the committed text and on screen.
C16_CommittedBeforeSend ==
  \A s \in DOMAIN sends :
    /\ Contains(view.committedText, LocalLine(s))
    /\ Contains(view.shown, LocalLine(s))

C16_Witness ==
  /\ Len(sends) = 2
  /\ sends[2].pc = "inflight"
  /\ Len(relay.log) = 1
  /\ Contains(view.committedText, LocalLine(1) \o LocalLine(2))

\* C17: once Stop has set the stopped flag, no task changes lastID or
\* sentIDs or hands an update to the event loop.
C17_QuietAfterStop ==
  [][ nc.stopped = 1 =>
        /\ nc'.lastID = nc.lastID
        /\ nc'.sentIDs = nc.sentIDs
        /\ queue' = queue ]_vars

\* A cycle that ends with 204: poll() returned (nil, nil).
NoContentStep == loop.pc = "inflight" /\ loop'.pc = "pause"

\* C18 as stated: a 204 cycle delivers nothing, keeps the cursor, and leaves
\* the backoff and the connected state as they were before the cycle.
C18_NoContentNoEffect ==
  [][ NoContentStep =>
        /\ obs'.delivered = obs.delivered
        /\ nc'.lastID = nc.lastID
        /\ loop'.backoff = loop.backoff
        /\ loop'.wasConnected = loop.wasConnected
        /\ queue' = queue ]_vars

\* C18, amended: a 204 cycle delivers nothing and keeps the cursor, and is a
\* success like any other: the backoff is 1 and the state connected after
\* it, with a connected notification exactly when the cycle before was not
\* a success; after a successful cycle it changes neither.
C18_NoContentIsSuccess ==
  [][ NoContentStep =>
        /\ obs'.delivered = obs.delivered
        /\ nc'.lastID = nc.lastID
        /\ loop'.msgs = <<>>
        /\ loop'.backoff = 1
        /\ loop'.wasConnected
        /\ IF loop.wasConnected
           THEN loop'.backoff = loop.backoff /\ queue' = queue
           ELSE queue' = Append(queue, StatusTask(TRUE, ConnectedMsg)) ]_vars

C18_Witness ==
  /\ obs.lastOutcome = "204"
  /\ loop.pc = "pause"
  /\ loop.backoff = 1
  /\ Len(queue) >= 2
  /\ Last(queue).connected
  /\ ~queue[Len(queue) - 1].connected
  /\ obs.nPolls >= 4

\* A cycle that ends with 401.
RejectedStep == loop.pc = "inflight" /\ loop'.pc # "inflight" /\ obs'.lastOutcome = "401"

\* C19: a 401 is handled as a transport failure is: the connection is marked
\* down, the loop waits the current backoff, doubles it and polls again; it
\* never ends while the client is not stopped.
C19_RejectedRetries ==
  /\ [](nc.stopped = 0 => loop.pc # "exit")
  /\ [](loop.pc = "backoffWait" => ENABLED BackoffElapsed)
  /\ []((loop.pc = "top" /\ obs.nPolls < MaxLoopPolls) => ENABLED PollIssue(MaxLoopPolls))
  /\ [][ RejectedStep =>
           /\ loop' = [loop EXCEPT !.wasConnected = FALSE, !.pc = "backoffWait"]
           /\ nc' = nc
           /\ obs'.consecFails = obs.consecFails + 1
           /\ queue' = IF loop.firstConnect THEN Append(queue, StatusTask(FALSE, CannotReachMsg))
                       ELSE IF loop.wasConnected
                       THEN Append(queue, StatusTask(FALSE, ConnLostMsg(loop.backoff)))
                       ELSE queue ]_vars

C19_Witness ==
  /\ obs.lastOutcome = "401"
  /\ loop.pc = "inflight"
  /\ loop.backoff = 2
  /\ ~loop.wasConnected
  /\ ~loop.firstConnect

\* C20: a successful cycle that returned no message is followed by the
\* fixed pause, never by an immediate poll.
C20_PauseAfterEmptyCycle ==
  [][ ( /\ loop.pc = "inflight"
        /\ loop'.pc # "inflight"
        /\ obs'.lastOutcome \in {"200", "204"}
        /\ loop'.msgs = <<>> ) => loop'.pc = "pause" ]_vars

\* C21: lastID changes only in a poll cycle that ends with 200 and at
\* least one valid message, and then becomes the id of the last one; every
\* other cycle and every send leave it alone; once set it is never empty
\* again; and a poll request carries the lastID of the moment it is built.
C21_CursorFrame ==
  /\ [](loop.pc = "inflight" => loop.reqLastID = nc.lastID)
  /\ [][ (loop.pc = "top" /\ loop'.pc = "inflight") => loop'.reqLastID = nc.lastID ]_vars
  /\ [][ nc'.lastID # nc.lastID =>
           /\ loop.pc = "inflight"
           /\ obs'.lastOutcome = "200"
           /\ loop'.msgs # <<>>
           /\ nc'.lastID = Last(loop'.msgs).ID ]_vars
  /\ [][ nc.lastID # EmptyStr => nc'.lastID # EmptyStr ]_vars

C21_Witness ==
  /\ nc.lastID = IdOf(1)
  /\ loop.reqLastID = IdOf(1)
  /\ obs.lastOutcome = "badjson"
  /\ loop.pc = "backoffWait"
  /\ \E s \in DOMAIN sends : sends[s].pc = "done"

\* C22: a 200 whose body is not a JSON array aborts the cycle like a
\* transport failure: no message is delivered or queued for dispatch, lastID
\* and sentIDs are unchanged, the connection is marked down (with a
\* disconnected notification when it was up), and the loop waits the current
\* backoff and then polls again.
BadArrayStep ==
  loop.pc = "inflight" /\ loop'.pc # "inflight" /\ obs'.lastOutcome = "badjson"

HandledIds == { obs.delivered[k].ID : k \in DOMAIN obs.delivered }

C23_PendingOnlyUnseen ==
  \A id \in nc.sentIDs :
    /\ \E s \in DOMAIN sends : sends[s].status = 200 /\ sends[s].id = id
    /\ id \notin HandledIds

\* C24: after one Start at most one poll request is open at any time, and
\* it is open exactly while the loop is inside poll(); a send can be started
\* whatever is in flight, so several POSTs can be open at once.
OpenSends == { s \in DOMAIN sends : sends[s].pc \in {"inflight", "responded"} }

C24_OnePollManySends ==
  /\ obs.openPolls \in {0, 1}
  /\ (obs.openPolls = 1) = (loop.pc = "inflight")
  /\ (nc.stopped = 0 /\ Len(sends) + obs.nForeign < MaxPosts) => ENABLED OnSendMessage

C24_Witness ==
  /\ obs.openPolls = 1
  /\ Cardinality(OpenSends) >= 2

\* C25: the startup health check treats the relay as reachable for every
\* response whose status is not 5xx, and startup is fatal exactly when the
\* request fails or the status is 5xx.
BootChecked == boot.pc # "steps"

C25_Non5xxReachable ==
  BootChecked =>
    (boot.fatal <=> (boot.resp.failed \/ boot.resp.status \in 500..599))

\* C25 as the code has it: the relay is reachable exactly for a response
\* whose status is below 500; startup is fatal when the request fails or
\* the status is 500 or above, which includes three-digit codes past 599;
\* a fatal startup ends in app.Stop() and never shows the login screen.
C25_Below500Reachable ==
  /\ BootChecked =>
       /\ boot.fatal <=> (boot.resp.failed \/ boot.resp.status >= 500)
       /\ boot.pc \in {"connected", "done"} <=> (~boot.resp.failed /\ boot.resp.status < 500)
       /\ boot.pc \in {"fatal", "stopped"} <=> boot.fatal
  /\ boot.screen = "login" => (boot.pc = "done" /\ ~boot.fatal)

C25_Witness ==
  /\ boot.pc = "stopped"
  /\ ~boot.resp.failed
  /\ boot.resp.status = 600
  /\ boot.fatal
  /\ boot.countdown = 0

\* C26: ClearMessages leaves committedText, the inFlight map and the shown
\* text empty and adds exactly one to inFlightGen; no other step changes
\* inFlightGen, and it never decreases.
C26_ClearFrame ==
  [][ /\ ClearMessages =>
           /\ view'.inFlightGen = view.inFlightGen + 1
           /\ view'.committedText = <<>>
           /\ DOMAIN view'.inFlight = {}
           /\ view'.shown = <<>>
      /\ view'.inFlightGen # view.inFlightGen => ClearMessages
      /\ view'.inFlightGen >= view.inFlightGen ]_vars

C26_Witness ==
  /\ view.inFlightGen = 1
  /\ view.nextAnimID = 1
  /\ DOMAIN obs.slotWrites # {}
  /\ view.committedText = <<>>
  /\ DOMAIN view.inFlight = {}
  /\ view.shown = <<>>
  /\ queue # <<>>

\* C27: the bulk load of SetMessages, when it runs on a live view, replaces
\* committedText by exactly the given lines and drops every slot: right
\* after it the inFlight map is empty and the shown text is the given lines,
\* while inFlightGen and nextAnimID keep their values.  The call itself only
\* queues the load, and on a stopped view the load changes nothing.
C27_BulkReplaces ==
  [][ /\ (RunBulk /\ view.stopped = 0) =>
           /\ view'.committedText = Head(queue).text
           /\ DOMAIN view'.inFlight = {}
           /\ view'.shown = Head(queue).text
           /\ view'.inFlightGen = view.inFlightGen
           /\ view'.nextAnimID = view.nextAnimID
      /\ (RunBulk /\ view.stopped = 1) => view' = view
      /\ SetMessages => view' = view ]_vars

C27_Witness ==
  /\ obs.nEdits = 1
  /\ view.stopped = 0
  /\ view.inFlightGen = 0
  /\ view.nextAnimID = 1
  /\ obs.slotCommits = <<0>>
  /\ DOMAIN view.inFlight = {}
  /\ view.committedText # <<>>
  /\ view.shown = view.committedText
  /\ \A k \in DOMAIN queue : queue[k].kind # "bulk"

\* C28: anim-init gives the new slot the id nextAnimID and the generation
\* inFlightGen of that moment and adds one to nextAnimID; no other step
\* changes nextAnimID, not ClearMessages and not the bulk load, so the ids
\* grow in allocation order, no two animation goroutines hold the same id,
\* and every key of the inFlight map is below nextAnimID.
Allocated == { a \in DOMAIN anims : anims[a].id >= 0 }

C28_SlotIdsUnique ==
  /\ [](/\ \A a, b \in Allocated : a < b => anims[a].id < anims[b].id
        /\ \A a \in Allocated : anims[a].id < view.nextAnimID
        /\ \A k \in DOMAIN view.inFlight : k >= 0 /\ k < view.nextAnimID
        /\ view.nextAnimID = Cardinality(Allocated))
  /\ [][ /\ (RunInit /\ view.stopped = 0) =>
              LET a == Head(queue).anim
              IN /\ anims'[a].id = view.nextAnimID
                 /\ anims'[a].gen = view.inFlightGen
                 /\ view'.nextAnimID = view.nextAnimID + 1
                 /\ view.nextAnimID \in DOMAIN view'.inFlight
         /\ view'.nextAnimID # view.nextAnimID => RunInit
         /\ \A a \in Allocated : anims'[a].id = anims[a].id /\ anims'[a].gen = anims[a].gen ]_vars

C28_Witness ==
  /\ Cardinality(Allocated) >= 2
  /\ anims[1].id = 0 /\ anims[1].gen = 0
  /\ anims[2].id = 1 /\ anims[2].gen = 1
  /\ DOMAIN view.inFlight = {1}

\* C29: the word ticks of one animation run in the order they were queued:
\* in the queue the ticks of a slot carry growing word counts, a tick that
\* takes effect carries exactly the words already revealed in its slot plus
\* the next word of the message, and so the words a slot shows never become
\* fewer and grow by one word at a time, up to the commit of the full line.
SlotWords(v, r) ==
  LET text == v.inFlight[r.id]
  IN Fields(SubSeq(text, Len(r.prefix) + 1, Len(text) - 1))

TickApplies ==
  /\ RunTick
  /\ view.stopped = 0
  /\ Head(queue).gen = view.inFlightGen

C29_WordsInOrder ==
  /\ [](\A k, l \in DOMAIN queue :
          (k < l /\ queue[k].kind = "tick" /\ queue[l].kind = "tick"
                 /\ queue[k].animID = queue[l].animID)
            => Len(Fields(queue[l].text)) = Len(Fields(queue[k].text)) +
                 Cardinality({m \in (k + 1)..l : queue[m].kind = "tick"
                                                  /\ queue[m].animID = queue[k].animID}))
  /\ [][ TickApplies =>
           LET t == Head(queue)
               r == anims[CHOOSE a \in Allocated : anims[a].id = t.animID]
               n == obs.slotWrites[t.animID + 1]
           IN /\ Fields(t.text) = SubSeq(r.words, 1, n)
              /\ t.isLast <=> n = Len(r.words)
              /\ t.animID \in DOMAIN view.inFlight =>
                   SlotWords(view, r) = SubSeq(r.words, 1, n - 1)
              /\ ~t.isLast => SlotWords(view', r) = SubSeq(r.words, 1, n)
              /\ t.isLast => /\ t.animID \notin DOMAIN view'.inFlight
                             /\ obs'.commitText[t.animID + 1] = FullLine(r) ]_vars
  /\ [][ \A a \in Allocated :
           (anims[a].id \in DOMAIN view.inFlight /\ anims[a].id \in DOMAIN view'.inFlight)
             => Len(SlotWords(view', anims[a])) >= Len(SlotWords(view, anims[a])) ]_vars

C29_Witness ==
  /\ view.stopped = 0
  /\ \E a \in Allocated :
       /\ anims[a].gen = view.inFlightGen
       /\ anims[a].id \in DOMAIN view.inFlight
       /\ Len(SlotWords(view, anims[a])) = 1
       /\ PendingTicks(anims[a].id) = 2

\* C30: committedText is in commit order, not arrival order: a commit of a
\* slot and an AddMessage each put their line at the end of committedText,
\* whatever the slot id; so of two slots in flight the later one can commit
\* first and its line then stands before the line of the earlier one, and a
\* line added while a slot is in flight stands before the line that slot
\* commits afterwards.
SlotLine(a) == obs.commitText[anims[a].id + 1]

C30_CommitOrder ==
  [][ /\ (TickApplies /\ Head(queue).isLast) =>
           LET id == Head(queue).animID
           IN /\ obs'.commitText[id + 1] # <<>>
              /\ view'.committedText = view.committedText \o obs'.commitText[id + 1]
      /\ ViewAddMessage =>
           \E msg \in LocalMessages :
             view'.committedText = view.committedText \o formatLine(msg) ]_vars

C30_Witness ==
  /\ Cardinality(Allocated) = 2
  /\ anims[1].id = 0 /\ anims[2].id = 1
  /\ SlotLine(1) # <<>> /\ SlotLine(2) # <<>> /\ SlotLine(1) # SlotLine(2)
  /\ \E msg \in LocalMessages :
       view.committedText = SlotLine(2) \o formatLine(msg) \o SlotLine(1)

\* C31: lastIDMu and sentIDsMu are held only between a Lock and the Unlock
\* that follows the read or write it guards: never while the holder is in a
\* network call, a backoff wait, a pause or a callback; no task holds both;
\* and the holder of a lock can always take the step that releases it, so
\* the poll loop and the send tasks cannot deadlock on them.
Holds(task, mu) == mu = task

C31_LocksShort ==
  /\ nc.lastIDMu \in {Unlocked, PollTask}
  /\ Holds(PollTask, nc.lastIDMu) <=> loop.pc \in {"cursorRead", "cursorWrite"}
  /\ Holds(PollTask, nc.sentIDsMu) <=> loop.pc = "dedup"
  /\ \A s \in DOMAIN sends : Holds(SendTask(s), nc.sentIDsMu) <=> sends[s].pc = "register"
  /\ loop.pc \in {"inflight", "backoffWait", "pause", "callback", "idle", "top"} =>
       ~Holds(PollTask, nc.lastIDMu) /\ ~Holds(PollTask, nc.sentIDsMu)
  /\ \A s \in DOMAIN sends :
       sends[s].pc \in {"inflight", "responded", "done"} => ~Holds(SendTask(s), nc.sentIDsMu)
  /\ ~(Holds(PollTask, nc.lastIDMu) /\ Holds(PollTask, nc.sentIDsMu))
  /\ nc.lastIDMu # Unlocked => ENABLED (PollReadCursor \/ PollAdvance)
  /\ Holds(PollTask, nc.sentIDsMu) => ENABLED IncomingDedup
  /\ \A s \in DOMAIN sends : Holds(SendTask(s), nc.sentIDsMu) => ENABLED SendRegister(s)

C31_Witness ==
  /\ Holds(PollTask, nc.sentIDsMu)
  /\ loop.pc = "dedup"
  /\ \E s \in DOMAIN sends :
       /\ sends[s].pc = "responded" /\ sends[s].id # EmptyStr
       /\ ~ENABLED SendLock(s)
  /\ \E s \in DOMAIN sends : sends[s].pc = "inflight"

\* C32: an incoming message whose body has no word (empty, or spaces only)
\* is dropped by AddIncomingMessage in static and in animation mode alike:
\* no update is queued, no animation goroutine and no slot is started, and
\* the committed text, the slots and the shown text stay as they were; the
\* status line is not touched either.
WordlessArrives ==
  /\ obs'.nIncoming = obs.nIncoming + 1
  /\ Fields(obs'.lastIncoming) = <<>>

C32_WordlessDropped ==
  [][ WordlessArrives => queue' = queue /\ anims' = anims /\ view' = view ]_vars

C32_Witness ==
  /\ obs.nIncoming = 1
  /\ obs.lastIncoming = <<" ">>
  /\ view.animMode = 1
  /\ view.stopped = 0
  /\ view.committedText # <<>>
  /\ view.shown = view.committedText

\* C33: a panic inside one task ends that task only: the process keeps
\* running, and the event loop can go on to run the update that is next in
\* its queue.
C33_FaultContained ==
  /\ ~obs.exited
  /\ queue # <<>> => ENABLED (RunStatic \/ RunStatus \/ RunBulk \/ RunInit \/ RunTick)

\* C34: the stats poller of a network client stops when that client stops:
\* at its next tick a poller whose client has been stopped returns, also
\* when another client has been started in the meantime, so that the
\* pollers that outlive a tick all belong to the live client.
TickOf(p) ==
  /\ p \in DOMAIN app.pollers
  /\ app.pollers[p].pc = "wait"
  /\ app'.netClient = app.netClient
  /\ app'.before = app.before
  /\ app'.created = app.created
  /\ \A q \in DOMAIN app.pollers : q # p => app'.pollers[q] = app.pollers[q]

C34_PollerStopsWithClient ==
  [][ \A p \in DOMAIN app.pollers :
        (TickOf(p) /\ app.pollers[p].client # app.netClient)
          => app'.pollers[p].pc = "exit" ]_vars

\* C35: from the first successful cycle on, the status notifications of the
\* poll loop alternate between connected and disconnected, and the last one
\* says what the most recent cycle was: connected after a success,
\* disconnected after a failure.
IsStatus(t) == t.kind = "status"
Notified == SelectSeq(queue, IsStatus)
FirstUp == CHOOSE k \in DOMAIN Notified :
             Notified[k].connected /\ \A j \in 1..(k - 1) : ~Notified[j].connected

C35_Alternates ==
  ~loop.firstConnect =>
    /\ \E k \in DOMAIN Notified : Notified[k].connected
    /\ \A k \in FirstUp..(Len(Notified) - 1) :
         Notified[k].connected # Notified[k + 1].connected
    /\ Last(Notified).connected <=> obs.lastOutcome \in {"200", "204"}
    /\ Last(Notified).connected <=> loop.wasConnected

C35_Witness ==
  /\ ~loop.firstConnect
  /\ Len(Notified) - FirstUp >= 3
  /\ ~Last(Notified).connected
  /\ obs.consecFails >= 2

\* C36: a bulk load empties the slot map and leaves the generation alone, so
\* the animations that held a slot go on: a later word tick of such an
\* animation is not stale, a tick that is not the last puts the slot back
\* under the same id, and the last tick appends the line to the committed
\* text, behind the lines the bulk load installed.
LiveTick ==
  /\ queue # <<>> /\ Head(queue).kind = "tick"
  /\ view.stopped = 0
  /\ Head(queue).gen = view.inFlightGen

TickLine(t) == t.prefix \o sanitizeContent(t.text) \o <<EndLine>>

Settled(a) ==
  /\ a \in Allocated
  /\ anims[a].pc = "done" /\ PendingTicks(anims[a].id) = 0
  /\ obs.slotCommits[anims[a].id + 1] = 1
  /\ SlotLine(a) = FullLine(anims[a])
  /\ anims[a].id \notin DOMAIN view.inFlight

Cancelled(a) ==
  a \in Allocated /\ (view.stopped = 1 \/ view.inFlightGen # anims[a].gen)

C37_AnimationsSettle ==
  /\ [](\A k \in DOMAIN obs.slotCommits : obs.slotCommits[k] <= 1)
  /\ \A a \in 1..MaxSlots : (a \in Allocated) ~> (Settled(a) \/ Cancelled(a))
  /\ \A a \in 1..MaxSlots : [](Settled(a) => [](Settled(a) \/ Cancelled(a)))

C37_Witness ==
  \E a \in Allocated :
    /\ Settled(a) /\ ~Cancelled(a)
    /\ anims[a].i >= 2
    /\ anims[a].id \in obs.discarded
\* C38: once Stop has set the flag, no poll is issued any more, whether the
\* loop was waiting in its backoff or its pause or had a poll in flight, and
\* the loop ends: with the poll in flight returning, it reaches its exit.
Running == loop.pc \notin {"idle", "exit"}

C38_LoopEnds ==
  /\ [][ nc.stopped = 1 => obs'.nPolls = obs.nPolls /\ obs'.openPolls <= obs.openPolls ]_vars
  /\ (nc.stopped = 1 /\ Running) ~> (loop.pc = "exit")
  /\ [](loop.pc = "exit" => [](loop.pc = "exit"))

C38_Witness ==
  /\ loop.pc = "exit"
  /\ obs.late
  /\ obs.nPolls < MaxPolls
  /\ obs.lastOutcome = "200"
\* C39: in static mode the lines of the incoming messages stand in the
\* committed text in the order in which the poll loop delivered the messages,
\* inside a batch and from one batch to the next: the bodies committed so
\* far, followed by the bodies still queued, are the bodies delivered.
IsMark(c) == \E k \in DOMAIN ArrivalMarks : ArrivalMarks[k] = c
Marks(text) == SelectSeq(text, IsMark)
QueuedStatic ==
  ConcatAll([k \in DOMAIN queue |->
               IF queue[k].kind = "static" THEN queue[k].text ELSE <<>>])
DeliveredBodies == ConcatAll([k \in DOMAIN obs.delivered |-> obs.delivered[k].Content])

C39_StaticOrder ==
  view.animMode = 0 =>
    /\ Marks(view.committedText) \o Marks(QueuedStatic) = DeliveredBodies
    /\ \A k \in DOMAIN obs.delivered : obs.delivered[k].Content = ArrivalBody(k)

C39_Witness ==
  /\ view.animMode = 0
  /\ Len(Marks(view.committedText)) >= 3
  /\ obs.nPolls = 2
  /\ obs.batchStart = 1
  /\ Len(obs.delivered) - obs.batchStart >= 2
\* C40: poll() moves the cursor to the id of the last valid entry of the batch
\* before handleIncoming sees any entry, and the cursor stays there whatever
\* becomes of the entries: when every entry of the batch was dropped as an
\* echo of an own send, the cursor is the id of the last echo and onMessage
\* was not called for the batch.
BatchDone == obs.lastOutcome = "200" /\ loop.pc # "dispatch" /\ obs.rawBatch # <<>>

C40_CursorBeforeDispatch ==
  /\ loop.pc = "dispatch" => nc.lastID = Last(loop.msgs).ID
  /\ (loop.pc = "dispatch" /\ obs.batchDedup = 0 /\ Len(obs.delivered) = obs.batchStart) =>
       loop.msgs \in parsePollMessages(obs.rawBatch)
  /\ BatchDone =>
       \A msgs \in parsePollMessages(obs.rawBatch) :
         msgs # <<>> =>
           /\ nc.lastID = Last(msgs).ID
           /\ obs.batchDedup = Len(msgs) => Len(obs.delivered) = obs.batchStart

C40_Witness ==
  /\ BatchDone
  /\ obs.batchDedup >= 2
  /\ \A msgs \in parsePollMessages(obs.rawBatch) : Len(msgs) = obs.batchDedup
  /\ obs.delivered = <<>>
  /\ nc.lastID = IdOf(2)
====
